---- MODULE Spec2Model ----
(***************************************************************************)
(* Email Cleaner: the AI provider chain (SmartAIProvider), the unsubscribe *)
(* detector (UnsubscribeDetector), the batch operations built on it and    *)
(* the analyzer (EmailAnalyzer), as state machines.                        *)
(*                                                                         *)
(* The specifications share the variables:                                 *)
(*   Spec         one caller at a time on one SmartAIProvider              *)
(*   SpecConc     NumCallers calls interleaving at their await points      *)
(*   SpecExtract  extractUnsubscribeInfo applied to bounded inputs         *)
(*   SpecPerform  performUnsubscribe applied to the extractor's results    *)
(*   SpecBatch    one request to a batch operation, message by message     *)
(*   SpecAnalyze  analyzeEmailData applied to bounded inputs               *)
(***************************************************************************)
EXTENDS Integers, Sequences, FiniteSets, TLC

VARIABLES
    providers,        \* SmartAIProvider.providers: the chain, in priority order
    currentProvider,  \* SmartAIProvider.currentProvider: index into providers, 0 = null
    call,             \* per caller: the activation of executeWithFallback
    remoteSucceeded,  \* history: some remote provider has returned a result
    emailBody,        \* argument of extractUnsubscribeInfo
    headers,          \* argument of extractUnsubscribeInfo
    unsubscribeInfo,  \* result of extractUnsubscribeInfo / argument of performUnsubscribe
    upc,              \* position of the unsubscribe detector
    requests,         \* outbound GETs issued by performUnsubscribe, in order
    response,         \* what the outbound GET met: 0 none yet, -1 network error, else status
    unsubscribeResult, \* {success, message} returned by performUnsubscribe
    route,            \* the batch operation that serves the request
    params,           \* what the request carries besides the ids
    messageIds,       \* messageIds / emailsToProcess / newsletters
    bpc,              \* position of the batch operation
    results,          \* results / processed: the itemized list
    successCount,     \* successCount / unsubscribed
    archived,         \* archived
    markedRead,       \* the ids the mailbox has marked as read
    iterations,       \* history: what each loop iteration met
    batchResponse,    \* what the batch operation returns
    emails,           \* argument of analyzeEmailData, as runs of equal messages
    stats,            \* argument of analyzeEmailData
    analysis,         \* result of analyzeEmailData
    apc,              \* position of the analyzer
    mail,             \* the message handed to the classifier
    newsletterFlag,   \* isNewsletter: the result of detectNewsletter
    label,            \* the result of LocalAIProvider.categorizeEmail
    kpc,              \* position of the classifier
    mailbox,          \* per message id: whether it exists, and its Gmail labels
    before,           \* history: the mailbox when the request was received
    handler,          \* the handler that serves the request
    ids,              \* messageIds: supplied by the caller or found by the search
    gpc,              \* position of the handler
    cursor,           \* deleteEmails: how many ids of the list have been deleted
    gatewayCalls,     \* history: the mutation calls of the request to Gmail, in order
    reply,            \* what the handler answers
    served            \* number of requests received so far

chainVars == <<providers, currentProvider, call, remoteSucceeded>>
unsubVars == <<emailBody, headers, unsubscribeInfo, upc, requests, response, unsubscribeResult>>
batchVars == <<route, params, messageIds, bpc, results, successCount, archived, markedRead,
               iterations, batchResponse>>
analyzerVars == <<emails, stats, analysis, apc>>
classifierVars == <<mail, newsletterFlag, label, kpc>>
mailboxVars == <<mailbox, before, handler, ids, gpc, cursor, gatewayCalls, reply, served>>
vars == <<providers, currentProvider, call, remoteSucceeded,
          emailBody, headers, unsubscribeInfo, upc, requests, response, unsubscribeResult,
          route, params, messageIds, bpc, results, successCount, archived, markedRead,
          iterations, batchResponse,
          emails, stats, analysis, apc,
          mail, newsletterFlag, label, kpc,
          mailbox, before, handler, ids, gpc, cursor, gatewayCalls, reply, served>>
\* What the actions of one part leave alone.
notChainVars == <<unsubVars, batchVars, analyzerVars, classifierVars, mailboxVars>>
notUnsubVars == <<chainVars, batchVars, analyzerVars, classifierVars, mailboxVars>>
notBatchVars == <<chainVars, unsubVars, analyzerVars, classifierVars, mailboxVars>>
notAnalyzerVars == <<chainVars, unsubVars, batchVars, classifierVars, mailboxVars>>
notClassifierVars == <<chainVars, unsubVars, batchVars, analyzerVars, mailboxVars>>
notMailboxVars == <<chainVars, unsubVars, batchVars, analyzerVars, classifierVars>>

(***************************************************************************)
(* Bounds                                                                  *)
(***************************************************************************)
NumCallers == 2

Callers == 1..NumCallers

(***************************************************************************)
(* AI providers                                                            *)
(***************************************************************************)
GeminiName == "Google Gemini"
HuggingFaceName == "HuggingFace"
LocalName == "Local AI"

Methods == {"generateInsights", "summarizeEmails", "categorizeEmail"}

\* geminiApiKey: absent, accepted by the client library, or the client
\* constructor throws (caught: model stays null, isAvailable() is false).
GeminiKeys == {"none", "ok", "initfails"}

\* new SmartAIProvider(geminiApiKey, huggingFaceApiKey, includeLocal): the list.
BuildProviders(geminiApiKey, huggingFaceApiKey, includeLocal) ==
    (IF geminiApiKey # "none"
        THEN <<[name |-> GeminiName, available |-> (geminiApiKey = "ok")]>>
        ELSE <<>>)
    \o (IF huggingFaceApiKey
        THEN <<[name |-> HuggingFaceName, available |-> TRUE]>>
        ELSE <<>>)
    \o (IF includeLocal
        THEN <<[name |-> LocalName, available |-> TRUE]>>
        ELSE <<>>)

\* Faulty variant: the scan restarts at the current provider instead of after it.
getNextAvailableProviderFromCurrent(provs, cur, skipCurrent) ==
    LET startIndex == IF skipCurrent /\ cur # 0 THEN cur ELSE 1
        avail == {i \in startIndex..Len(provs) : provs[i].available}
    IN  IF avail = {} THEN 0
        ELSE CHOOSE i \in avail : \A j \in avail : i <= j

\* Faulty variant: skipCurrent is ignored, the scan always restarts at the head.
getNextAvailableProviderFromHead(provs, cur, skipCurrent) ==
    LET avail == {i \in 1..Len(provs) : provs[i].available /\ i # cur}
    IN  IF avail = {} THEN 0
        ELSE CHOOSE i \in avail : \A j \in avail : i <= j

\* getNextAvailableProvider(skipCurrent): first available provider at or after
\* startIndex (1-based here), 0 for null.
getNextAvailableProvider(provs, cur, skipCurrent) ==
    LET startIndex == IF skipCurrent /\ cur # 0 THEN cur + 1 ELSE 1
        avail == {i \in startIndex..Len(provs) : provs[i].available}
    IN  IF avail = {} THEN 0
        ELSE CHOOSE i \in avail : \A j \in avail : i <= j

\* this.providers.find(p => p.name === 'Local AI'), 0 for undefined.
localProvider(provs) ==
    LET found == {i \in 1..Len(provs) : provs[i].name = LocalName}
    IN  IF found = {} THEN 0
        ELSE CHOOSE i \in found : \A j \in found : i <= j

\* GeminiProvider.<method>: throws when unavailable, when the argument cannot
\* be read (null/undefined input), or when the backend call fails.
GeminiCall(p, method, inputOk, backendOk) ==
    p.available /\ inputOk /\ backendOk

\* HuggingFaceProvider.<method>: generateInsights needs the backend;
\* summarizeEmails is computed locally; categorizeEmail falls back to the
\* local rules when the backend call fails.
HuggingFaceCall(p, method, inputOk, backendOk) ==
    CASE method = "generateInsights" -> p.available /\ inputOk /\ backendOk
      [] method = "summarizeEmails"  -> inputOk
      [] method = "categorizeEmail"  -> p.available /\ inputOk

\* LocalAIProvider.<method>: rule based, throws only on an unreadable argument.
LocalCall(p, method, inputOk, backendOk) ==
    inputOk

\* provider[method](...args) resolves (TRUE) or rejects (FALSE).
ProviderCall(p, method, inputOk, backendOk) ==
    CASE p.name = GeminiName      -> GeminiCall(p, method, inputOk, backendOk)
      [] p.name = HuggingFaceName -> HuggingFaceCall(p, method, inputOk, backendOk)
      [] p.name = LocalName       -> LocalCall(p, method, inputOk, backendOk)

IsRemote(p) == p.name # LocalName

IdleCall ==
    [pc |-> "idle", method |-> "generateInsights", inputOk |-> TRUE,
     lastError |-> 0, attempts |-> <<>>, failed |-> 0, result |-> 0,
     error |-> 0, startProvider |-> 0, prevResult |-> 0]

\* Faulty variant: the ultimate fallback is tried only when no fallback was found.
UltimateFallbackOnlyWithoutCurrent(provs, cur, rec) ==
    LET local == localProvider(provs)
    IN  IF local # 0 /\ cur = 0
        THEN [cur |-> local,
              rec |-> [rec EXCEPT !.pc = "await3", !.attempts = Append(@, local)]]
        ELSE [cur |-> cur,
              rec |-> [rec EXCEPT !.pc = "thrown", !.error = rec.lastError]]

\* executeWithFallback, third block: Local AI as ultimate fallback unless it is
\* the current provider; otherwise throw 'All AI providers failed ...:
\* ${lastError?.message}'.
UltimateFallback(provs, cur, rec) ==
    LET local == localProvider(provs)
    IN  IF local # 0 /\ local # cur
        THEN [cur |-> local,
              rec |-> [rec EXCEPT !.pc = "await3", !.attempts = Append(@, local)]]
        ELSE [cur |-> cur,
              rec |-> [rec EXCEPT !.pc = "thrown", !.error = rec.lastError]]

\* Faulty variant: the fallback provider is called without becoming the current one.
FallbackWithoutSwitch(provs, cur, rec) ==
    LET fallbackProvider == getNextAvailableProvider(provs, cur, TRUE)
    IN  IF fallbackProvider # 0
        THEN [cur |-> cur,
              rec |-> [rec EXCEPT !.pc = "await2",
                                  !.attempts = Append(@, fallbackProvider)]]
        ELSE UltimateFallback(provs, cur, rec)

\* executeWithFallback, second block: switch to the next available provider
\* and call it; without one, go on to the ultimate fallback.
Fallback(provs, cur, rec) ==
    LET fallbackProvider == getNextAvailableProvider(provs, cur, TRUE)
    IN  IF fallbackProvider # 0
        THEN [cur |-> fallbackProvider,
              rec |-> [rec EXCEPT !.pc = "await2",
                                  !.attempts = Append(@, fallbackProvider)]]
        ELSE UltimateFallback(provs, cur, rec)

\* executeWithFallback up to its first await: call the current provider, or
\* without one go straight to the fallback block.
Enter(provs, cur, rec) ==
    IF cur # 0
    THEN [cur |-> cur,
          rec |-> [rec EXCEPT !.pc = "await1", !.attempts = <<cur>>]]
    ELSE Fallback(provs, cur, rec)

Awaiting(c) == call[c].pc \in {"await1", "await2", "await3"}
Finished(c) == call[c].pc \in {"returned", "thrown"}
Attempted(c) == call[c].attempts[Len(call[c].attempts)]

\* generateInsights / summarizeEmails / categorizeEmail(input): a new
\* activation of executeWithFallback by caller c.
Begin(c) ==
    /\ ~Awaiting(c)
    /\ \E method \in Methods, inputOk \in BOOLEAN :
        LET rec == [IdleCall EXCEPT !.method = method, !.inputOk = inputOk,
                                    !.startProvider = currentProvider,
                                    !.prevResult = call[c].result]
            next == Enter(providers, currentProvider, rec)
        IN  /\ currentProvider' = next.cur
            /\ call' = [call EXCEPT ![c] = next.rec]
    /\ UNCHANGED <<providers, remoteSucceeded>>

\* The awaited provider call resolves: log and return its result.
Resolve(c) ==
    /\ Awaiting(c)
    /\ \E backendOk \in BOOLEAN :
        ProviderCall(providers[Attempted(c)], call[c].method, call[c].inputOk, backendOk)
    /\ call' = [call EXCEPT ![c].pc = "returned", ![c].result = Attempted(c)]
    /\ remoteSucceeded' = (remoteSucceeded \/ IsRemote(providers[Attempted(c)]))
    /\ UNCHANGED <<providers, currentProvider>>

\* The awaited call of the current provider rejects: catch, record lastError,
\* run on to the next await or to the throw.
RejectCurrent(c) ==
    /\ call[c].pc = "await1"
    /\ \E backendOk \in BOOLEAN :
        ~ProviderCall(providers[Attempted(c)], call[c].method, call[c].inputOk, backendOk)
    /\ LET rec == [call[c] EXCEPT !.lastError = Attempted(c), !.failed = @ + 1]
           next == Fallback(providers, currentProvider, rec)
       IN  /\ currentProvider' = next.cur
           /\ call' = [call EXCEPT ![c] = next.rec]
    /\ UNCHANGED <<providers, remoteSucceeded>>

\* The awaited call of the fallback provider rejects: catch, record lastError,
\* run on to the ultimate fallback or to the throw.
RejectFallback(c) ==
    /\ call[c].pc = "await2"
    /\ \E backendOk \in BOOLEAN :
        ~ProviderCall(providers[Attempted(c)], call[c].method, call[c].inputOk, backendOk)
    /\ LET rec == [call[c] EXCEPT !.lastError = Attempted(c), !.failed = @ + 1]
           next == UltimateFallback(providers, currentProvider, rec)
       IN  /\ currentProvider' = next.cur
           /\ call' = [call EXCEPT ![c] = next.rec]
    /\ UNCHANGED <<providers, remoteSucceeded>>

\* The awaited Local AI call rejects: the catch logs, lastError is not
\* assigned, and the function throws.
RejectLocal(c) ==
    /\ call[c].pc = "await3"
    /\ \E backendOk \in BOOLEAN :
        ~ProviderCall(providers[Attempted(c)], call[c].method, call[c].inputOk, backendOk)
    /\ call' = [call EXCEPT ![c].pc = "thrown", ![c].failed = @ + 1,
                            ![c].error = call[c].lastError]
    /\ UNCHANGED <<providers, currentProvider, remoteSucceeded>>

(***************************************************************************)
(* Unsubscribe detector                                                    *)
(*                                                                         *)
(* A link is a string, kept here by what the code reads of it: the prefix  *)
(* it starts with and whether its lower-cased text holds one of the        *)
(* unsubscribeKeywords.                                                    *)
(***************************************************************************)
MaxTokens == 2
MaxElements == 2

HttpsUnsubscribe == [scheme |-> "https:", keyword |-> TRUE]   \* https://news.example/unsubscribe?u=1
HttpPlain == [scheme |-> "http:", keyword |-> FALSE]          \* http://news.example/manage
HttpsPlain == [scheme |-> "https:", keyword |-> FALSE]        \* https://news.example/
MailtoUnsubscribe == [scheme |-> "mailto:", keyword |-> TRUE] \* mailto:unsubscribe@news.example
RelativeUnsubscribe == [scheme |-> "/", keyword |-> TRUE]     \* /unsubscribe
NoAttr == [scheme |-> "", keyword |-> FALSE]                  \* attribute absent (undefined)

StartsWithHttp(link) == link.scheme \in {"http:", "https:"}
StartsWithHttps(link) == link.scheme = "https:"
StartsWithMailto(link) == link.scheme = "mailto:"

SeqsUpTo(S, n) == UNION {[1..k -> S] : k \in 0..n}

\* A List-Unsubscribe value is a list of comma separated items, each either
\* <...>-bracketed or bare.
HeaderTokens ==
    { [bracketed |-> TRUE, url |-> HttpsUnsubscribe],
      [bracketed |-> TRUE, url |-> MailtoUnsubscribe],
      [bracketed |-> TRUE, url |-> RelativeUnsubscribe],
      [bracketed |-> FALSE, url |-> HttpsUnsubscribe] }
HeaderValues == SeqsUpTo(HeaderTokens, MaxTokens)     \* <<>> is the empty string
HeaderKeys == {"list-unsubscribe", "List-Unsubscribe"}
NoHeaders == [key |-> "undefined", value |-> <<>>]    \* the argument is omitted
\* The header under a name in another letter case, as mail software may send it.
OtherCaseHeader ==
    [key |-> "LIST-UNSUBSCRIBE", value |-> <<[bracketed |-> TRUE, url |-> HttpsUnsubscribe]>>]
Headers == {NoHeaders, OtherCaseHeader} \cup [key : HeaderKeys, value : HeaderValues]

\* The elements of the body that some unsubscribeSelector selects: the href,
\* whether the lower-cased text holds a keyword, and the selectors (in the
\* order of the list: by href, by text, by container or attribute) that
\* select the element.
SelectorKinds == <<"href", "text", "container">>
Anchors ==
    { [href |-> HttpsUnsubscribe, textKeyword |-> TRUE, selectedBy |-> {"href", "text"}],
      [href |-> HttpPlain, textKeyword |-> TRUE, selectedBy |-> {"text"}],
      [href |-> MailtoUnsubscribe, textKeyword |-> FALSE, selectedBy |-> {"href"}],
      [href |-> HttpsPlain, textKeyword |-> FALSE, selectedBy |-> {"container"}],
      [href |-> RelativeUnsubscribe, textKeyword |-> TRUE, selectedBy |-> {"href", "text"}] }
\* The <form> elements of the body: whether the inner HTML holds
\* 'unsubscribe' or 'opt out', and the action attribute.
Forms ==
    { [matches |-> TRUE, action |-> RelativeUnsubscribe],
      [matches |-> TRUE, action |-> HttpsPlain],
      [matches |-> TRUE, action |-> NoAttr],
      [matches |-> FALSE, action |-> HttpsUnsubscribe] }
\* mentions: occurrences of 'unsubscribe' in the lower-cased body (none, one,
\* and more than the confidence bonus counts).  The empty string is the body
\* without anchors, forms and mentions.
Mentions == {0, 1, 4}
Bodies ==
    {b \in [anchors : SeqsUpTo(Anchors, MaxElements), forms : SeqsUpTo(Forms, MaxElements),
            mentions : Mentions] : Len(b.anchors) + Len(b.forms) <= MaxElements}
EmptyBody == [anchors |-> <<>>, forms |-> <<>>, mentions |-> 0]

\* Confidence values are kept exact, as fractions.
Fraction(n, d) == [num |-> n, den |-> d]
Min(a, b) == IF a <= b THEN a ELSE b

RECURSIVE Dedupe(_)
\* [...new Set(links)]: first occurrences, in order.
Dedupe(links) ==
    IF links = <<>> THEN <<>>
    ELSE LET init == Dedupe(SubSeq(links, 1, Len(links) - 1))
             last == links[Len(links)]
         IN  IF \E i \in 1..Len(init) : init[i] = last THEN init
             ELSE Append(init, last)

RECURSIVE MapUrl(_)
MapUrl(tokens) ==
    IF tokens = <<>> THEN <<>>
    ELSE <<tokens[1].url>> \o MapUrl(Tail(tokens))

\* Faulty variant: every bracketed item is kept, whatever it starts with.
extractLinksFromHeaderUnfiltered(headerValue) ==
    LET Keep(t) == t.bracketed
    IN  MapUrl(SelectSeq(headerValue, Keep))

\* extractLinksFromHeader: the <...> items that start with http or mailto:.
extractLinksFromHeader(headerValue) ==
    LET Keep(t) == t.bracketed /\ (StartsWithHttp(t.url) \/ StartsWithMailto(t.url))
    IN  MapUrl(SelectSeq(headerValue, Keep))

\* headers['list-unsubscribe'] || headers['List-Unsubscribe'] (<<>> is falsy).
ListUnsubscribeOf(hdrs) ==
    IF hdrs.key \in {"list-unsubscribe", "List-Unsubscribe"} THEN hdrs.value ELSE <<>>

\* Faulty variant: a present header counts as found whatever it yields.
checkHeadersAlwaysFound(hdrs) ==
    LET listUnsubscribe == ListUnsubscribeOf(hdrs)
    IN  IF hdrs = NoHeaders \/ listUnsubscribe = <<>>
        THEN [found |-> FALSE, links |-> <<>>, method |-> "header",
              confidence |-> Fraction(0, 1)]
        ELSE [found |-> TRUE, links |-> extractLinksFromHeader(listUnsubscribe),
              method |-> "header", confidence |-> Fraction(9, 10)]

\* checkHeaders.
checkHeaders(hdrs) ==
    LET listUnsubscribe == ListUnsubscribeOf(hdrs)
    IN  IF hdrs = NoHeaders \/ listUnsubscribe = <<>>
        THEN [found |-> FALSE, links |-> <<>>, method |-> "header",
              confidence |-> Fraction(0, 1)]
        ELSE LET links == extractLinksFromHeader(listUnsubscribe)
             IN  [found |-> Len(links) > 0, links |-> links, method |-> "header",
                  confidence |-> Fraction(9, 10)]

\* isValidUnsubscribeLink(href, text).
isValidUnsubscribeLink(href, textKeyword) ==
    /\ ~(href = NoAttr \/ href.scheme = "#" \/ href.scheme = "javascript:")
    /\ StartsWithHttp(href) \/ StartsWithMailto(href)
    /\ href.keyword \/ textKeyword

\* Faulty variant: the bonus for mentions of 'unsubscribe' is not capped at 0.3.
calculateConfidenceUncappedMentions(links, body) ==
    IF Len(links) = 0 THEN Fraction(0, 1)
    ELSE LET httpsLinks == Len(SelectSeq(links, StartsWithHttps))
             num == 5 * Len(links) + body.mentions * Len(links) + 2 * httpsLinks
             den == 10 * Len(links)
         IN  IF num > den THEN Fraction(1, 1) ELSE Fraction(num, den)

\* calculateConfidence(links, emailBody): 0.5 + min(0.1 * mentions, 0.3)
\* + 0.2 * (https links / links), capped at 1.
calculateConfidence(links, body) ==
    IF Len(links) = 0 THEN Fraction(0, 1)
    ELSE LET httpsLinks == Len(SelectSeq(links, StartsWithHttps))
             num == 5 * Len(links) + Min(body.mentions, 3) * Len(links) + 2 * httpsLinks
             den == 10 * Len(links)
         IN  IF num > den THEN Fraction(1, 1) ELSE Fraction(num, den)

RECURSIVE Hrefs(_)
Hrefs(anchors) ==
    IF anchors = <<>> THEN <<>>
    ELSE <<anchors[1].href>> \o Hrefs(Tail(anchors))

RECURSIVE Actions(_)
Actions(forms) ==
    IF forms = <<>> THEN <<>>
    ELSE <<forms[1].action>> \o Actions(Tail(forms))

\* The links one selector contributes, in document order.
SelectorLinks(body, selector) ==
    LET Push(a) == selector \in a.selectedBy /\ a.href # NoAttr
                   /\ isValidUnsubscribeLink(a.href, a.textKeyword)
    IN  Hrefs(SelectSeq(body.anchors, Push))

\* parseEmailContent.
parseEmailContent(body) ==
    IF body = EmptyBody
    THEN [found |-> FALSE, links |-> <<>>, method |-> "link",
          confidence |-> Fraction(0, 1)]
    ELSE LET fromAnchors == SelectorLinks(body, SelectorKinds[1])
                            \o SelectorLinks(body, SelectorKinds[2])
                            \o SelectorLinks(body, SelectorKinds[3])
             Matching(f) == f.matches
             forms == SelectSeq(body.forms, Matching)
             HasAction(f) == f.action # NoAttr
             links == fromAnchors \o Actions(SelectSeq(forms, HasAction))
             uniqueLinks == Dedupe(links)
         IN  [found |-> Len(uniqueLinks) > 0, links |-> uniqueLinks,
              method |-> IF Len(forms) > 0 THEN "form" ELSE "link",
              confidence |-> calculateConfidence(uniqueLinks, body)]

\* Faulty variant: the body is parsed first and the headers only when it yields nothing.
extractUnsubscribeInfoContentFirst(body, hdrs) ==
    LET headerInfo == checkHeaders(hdrs)
        contentInfo == parseEmailContent(body)
    IN  IF contentInfo.found THEN contentInfo
        ELSE IF headerInfo.found THEN headerInfo
        ELSE [found |-> FALSE, links |-> <<>>, method |-> "link",
              confidence |-> Fraction(0, 1)]

\* extractUnsubscribeInfo(emailBody, headers).
extractUnsubscribeInfo(body, hdrs) ==
    LET headerInfo == checkHeaders(hdrs)
        contentInfo == parseEmailContent(body)
    IN  IF headerInfo.found THEN headerInfo
        ELSE IF contentInfo.found THEN contentInfo
        ELSE [found |-> FALSE, links |-> <<>>, method |-> "link",
              confidence |-> Fraction(0, 1)]

\* performUnsubscribe: what it returns, or that it threw.
Message(text, link, status) == [text |-> text, link |-> link, status |-> status]
Returned(success, message) == [thrown |-> FALSE, success |-> success, message |-> message]
Thrown == [thrown |-> TRUE, success |-> FALSE, message |-> Message("", NoAttr, 0)]

\* Faulty variant: the first link that can be fetched is used.
FirstFetchableLink(info) ==
    LET fetchable == {i \in 1..Len(info.links) : ~StartsWithMailto(info.links[i])}
    IN  IF fetchable = {} THEN info.links[1]
        ELSE info.links[CHOOSE i \in fetchable : \A j \in fetchable : i <= j]

\* const link = unsubscribeInfo.links[0]
FirstLink(info) == info.links[1]

\* Faulty variant: the upper bound of the accepted range is included.
IsSuccessStatusInclusive(status) == status >= 200 /\ status <= 400

\* response.status >= 200 && response.status < 400
IsSuccessStatus(status) == status >= 200 /\ status < 400

\* The status codes a server may answer with (validateStatus accepts all).
Statuses == {199, 200, 302, 399, 400, 404, 500}

NoInfo == [found |-> FALSE, links |-> <<>>, method |-> "link", confidence |-> Fraction(0, 1)]
NoResult == [thrown |-> FALSE, success |-> FALSE, message |-> Message("", NoAttr, 0)]

\* extractUnsubscribeInfo(emailBody, headers) is called and returns.
ExtractUnsubscribeInfo ==
    /\ upc = "start"
    /\ unsubscribeInfo' = extractUnsubscribeInfo(emailBody, headers)
    /\ upc' = "extracted"
    /\ UNCHANGED <<emailBody, headers, requests, response, unsubscribeResult>>

\* performUnsubscribe(unsubscribeInfo) up to its return or to the await of
\* axios.get.
PerformUnsubscribe ==
    /\ upc = "extracted"
    /\ IF ~unsubscribeInfo.found \/ Len(unsubscribeInfo.links) = 0
       THEN /\ unsubscribeResult' =
                    Returned(FALSE, Message("No unsubscribe method found", NoAttr, 0))
            /\ upc' = "done"
            /\ UNCHANGED requests
       ELSE LET link == FirstLink(unsubscribeInfo)
            IN  IF StartsWithMailto(link)
                THEN /\ unsubscribeResult' =
                            Returned(FALSE,
                                Message("Email-based unsubscribe requires manual action: ",
                                        link, 0))
                     /\ upc' = "done"
                     /\ UNCHANGED requests
                ELSE /\ requests' = Append(requests, link)
                     /\ upc' = "awaitGet"
                     /\ UNCHANGED unsubscribeResult
    /\ UNCHANGED <<emailBody, headers, unsubscribeInfo, response>>

\* axios.get resolves with some status.
GetResponds ==
    /\ upc = "awaitGet"
    /\ \E status \in Statuses :
        /\ response' = status
        /\ unsubscribeResult' =
            IF IsSuccessStatus(status)
            THEN Returned(TRUE, Message("Successfully unsubscribed", NoAttr, 0))
            ELSE Returned(FALSE, Message("Unsubscribe request returned status ",
                                         NoAttr, status))
    /\ upc' = "done"
    /\ UNCHANGED <<emailBody, headers, unsubscribeInfo, requests>>

\* Faulty variant: the error is logged and thrown again.
CatchErrorRethrow == Thrown

\* catch (error): log and report the failure.
CatchError == Returned(FALSE, Message("Failed to process unsubscribe request", NoAttr, 0))

\* axios.get rejects: network error, invalid URL or the 10 s timeout.
GetFails ==
    /\ upc = "awaitGet"
    /\ response' = -1
    /\ unsubscribeResult' = CatchError
    /\ upc' = "done"
    /\ UNCHANGED <<emailBody, headers, unsubscribeInfo, requests>>

UnsubIdle ==
    /\ emailBody = EmptyBody
    /\ headers = NoHeaders
    /\ unsubscribeInfo = NoInfo
    /\ upc = "unused"
    /\ requests = <<>>
    /\ response = 0
    /\ unsubscribeResult = NoResult

(***************************************************************************)
(* Batch operations: the unsubscribe route, the n8n bulk_unsubscribe       *)
(* action and the automation clean_newsletters action                      *)
(***************************************************************************)
MaxBatch == 2
BulkLimit == 50             \* emailsToProcess.slice(0, 50)
MaxProcessedDefault == 50   \* maxProcessed = 50

UnsubscribeRoute == "unsubscribe"
BulkUnsubscribe == "bulk_unsubscribe"
CleanNewsletters == "clean_newsletters"
Routes == {UnsubscribeRoute, BulkUnsubscribe, CleanNewsletters}

\* Message ids are 1, 2, ... in the order of the list.
IdList(n) == [i \in 1..n |-> i]
IdLists == {IdList(n) : n \in 0..MaxBatch}

\* messageIdsGiven: the request carries an array of ids (bulk_unsubscribe);
\* autoUnsubscribe, maxProcessed: the settings of clean_newsletters.
DefaultParams ==
    [messageIdsGiven |-> TRUE, autoUnsubscribe |-> TRUE, maxProcessed |-> MaxProcessedDefault]

\* The bodies getEmailBody returns: '' for a message without payload, a body
\* with an https unsubscribe link, one with a plain http link under an
\* 'unsubscribe' text, one with a mailto: link only.
FetchedBodies ==
    { EmptyBody,
      [anchors |-> <<[href |-> HttpsUnsubscribe, textKeyword |-> TRUE,
                      selectedBy |-> {"href", "text"}]>>,
       forms |-> <<>>, mentions |-> 4],
      [anchors |-> <<[href |-> HttpPlain, textKeyword |-> TRUE, selectedBy |-> {"text"}]>>,
       forms |-> <<>>, mentions |-> 1],
      [anchors |-> <<[href |-> MailtoUnsubscribe, textKeyword |-> FALSE,
                      selectedBy |-> {"href"}]>>,
       forms |-> <<>>, mentions |-> 4] }

\* What one iteration meets: whether getEmailBody resolves and with which
\* body, what the outbound GET meets (-1: it rejects), whether markAsRead
\* resolves.
Environments ==
    [bodyOk : BOOLEAN, body : FetchedBodies, get : {-1, 200, 404}, markOk : BOOLEAN]

\* performUnsubscribe(unsubscribeInfo) as a function of what its GET meets.
performUnsubscribe(info, get) ==
    IF ~info.found \/ Len(info.links) = 0
    THEN Returned(FALSE, Message("No unsubscribe method found", NoAttr, 0))
    ELSE LET link == FirstLink(info)
         IN  IF StartsWithMailto(link)
             THEN Returned(FALSE,
                     Message("Email-based unsubscribe requires manual action: ", link, 0))
             ELSE IF get = -1 THEN CatchError
             ELSE IF IsSuccessStatus(get)
             THEN Returned(TRUE, Message("Successfully unsubscribed", NoAttr, 0))
             ELSE Returned(FALSE, Message("Unsubscribe request returned status ", NoAttr, get))

Entry(id, success, message) == [messageId |-> id, success |-> success, message |-> message]

\* The locals of a loop, and whether an error left the loop.
LoopState ==
    [results |-> results, successCount |-> successCount, archived |-> archived,
     markedRead |-> markedRead, iterations |-> iterations, thrown |-> FALSE]

\* One iteration is recorded with what became of the message.
Logged(st, id, outcome) ==
    [st EXCEPT !.iterations = Append(@, [messageId |-> id, outcome |-> outcome])]
Pushed(st, entry) == [st EXCEPT !.results = Append(@, entry)]

\* unsubscribeInfo.confidence > 0.7
HighConfidence(info) == 10 * info.confidence.num > 7 * info.confidence.den

\* Faulty variant: the iteration has no try/catch of its own.
UnsubscribeRouteItemUncaught(st, id, env) ==
    LET info == extractUnsubscribeInfo(env.body, NoHeaders)
        res == performUnsubscribe(info, env.get)
    IN  IF ~env.bodyOk
        THEN [Logged(st, id, "bodyFailed") EXCEPT !.thrown = TRUE]
        ELSE IF info.found
        THEN LET pushed == Pushed(st, Entry(id, res.success, res.message.text))
             IN  IF ~res.success THEN Logged(pushed, id, "unsubscribeFailed")
                 ELSE IF env.markOk
                 THEN [Logged(pushed, id, "unsubscribed") EXCEPT !.markedRead = @ \cup {id}]
                 ELSE [Logged(pushed, id, "markFailed") EXCEPT !.thrown = TRUE]
        ELSE Logged(Pushed(st, Entry(id, FALSE, "No unsubscribe method found")),
                    id, "notFound")

\* The body of the loop of the unsubscribe route, for one messageId.
UnsubscribeRouteItem(st, id, env) ==
    LET info == extractUnsubscribeInfo(env.body, NoHeaders)
        res == performUnsubscribe(info, env.get)
        Caught(s) == Pushed(s, Entry(id, FALSE, "Error processing email"))
    IN  IF ~env.bodyOk
        THEN Caught(Logged(st, id, "bodyFailed"))
        ELSE IF info.found
        THEN LET pushed == Pushed(st, Entry(id, res.success, res.message.text))
             IN  IF ~res.success THEN Logged(pushed, id, "unsubscribeFailed")
                 ELSE IF env.markOk
                 THEN [Logged(pushed, id, "unsubscribed") EXCEPT !.markedRead = @ \cup {id}]
                 ELSE Caught(Logged(pushed, id, "markFailed"))
        ELSE Logged(Pushed(st, Entry(id, FALSE, "No unsubscribe method found")),
                    id, "notFound")

\* Faulty variant: markAsRead is called whether or not the unsubscribe succeeded.
BulkUnsubscribeItemMarksAlways(st, id, env) ==
    LET info == extractUnsubscribeInfo(env.body, NoHeaders)
        res == performUnsubscribe(info, env.get)
        Caught(s) == Pushed(s, Entry(id, FALSE, "Processing error"))
    IN  IF ~env.bodyOk
        THEN Caught(Logged(st, id, "bodyFailed"))
        ELSE IF info.found
        THEN IF ~env.markOk THEN Caught(Logged(st, id, "markFailed"))
             ELSE IF ~res.success
             THEN [Logged(Pushed(st, Entry(id, FALSE, res.message.text)),
                          id, "unsubscribeFailed")
                      EXCEPT !.markedRead = @ \cup {id}]
             ELSE [Logged(Pushed(st, Entry(id, TRUE, res.message.text)), id, "unsubscribed")
                      EXCEPT !.markedRead = @ \cup {id}, !.successCount = @ + 1]
        ELSE Logged(Pushed(st, Entry(id, FALSE, "No unsubscribe method found")),
                    id, "notFound")

\* The body of the loop of handleBulkUnsubscribe, for one messageId.
BulkUnsubscribeItem(st, id, env) ==
    LET info == extractUnsubscribeInfo(env.body, NoHeaders)
        res == performUnsubscribe(info, env.get)
        Caught(s) == Pushed(s, Entry(id, FALSE, "Processing error"))
    IN  IF ~env.bodyOk
        THEN Caught(Logged(st, id, "bodyFailed"))
        ELSE IF info.found
        THEN IF ~res.success
             THEN Logged(Pushed(st, Entry(id, FALSE, res.message.text)),
                         id, "unsubscribeFailed")
             ELSE IF env.markOk
             THEN [Logged(Pushed(st, Entry(id, TRUE, res.message.text)), id, "unsubscribed")
                      EXCEPT !.markedRead = @ \cup {id}, !.successCount = @ + 1]
             ELSE Caught(Logged(st, id, "markFailed"))
        ELSE Logged(Pushed(st, Entry(id, FALSE, "No unsubscribe method found")),
                    id, "notFound")

\* The body of the loop of performNewsletterCleaning, for one newsletter.
CleanNewslettersItem(st, id, env, autoUnsubscribe) ==
    LET info == extractUnsubscribeInfo(env.body, NoHeaders)
        res == performUnsubscribe(info, env.get)
    IN  IF autoUnsubscribe
        THEN IF ~env.bodyOk THEN Logged(st, id, "bodyFailed")
             ELSE IF ~info.found THEN Logged(st, id, "notFound")
             ELSE IF ~HighConfidence(info) THEN Logged(st, id, "lowConfidence")
             ELSE IF ~res.success
             THEN Logged(Pushed(st, Entry(id, FALSE, res.message.text)),
                         id, "unsubscribeFailed")
             ELSE IF env.markOk
             THEN [Logged(Pushed(st, Entry(id, TRUE, res.message.text)), id, "unsubscribed")
                      EXCEPT !.markedRead = @ \cup {id}, !.successCount = @ + 1]
             ELSE [Logged(st, id, "markFailed") EXCEPT !.successCount = @ + 1]
        ELSE IF env.markOk
             THEN [Logged(st, id, "archived")
                      EXCEPT !.markedRead = @ \cup {id}, !.archived = @ + 1]
             ELSE Logged(st, id, "markFailed")

\* The list the loop runs over.
LoopList ==
    IF route = UnsubscribeRoute THEN messageIds
    ELSE IF route = BulkUnsubscribe
    THEN SubSeq(messageIds, 1, Min(Len(messageIds), BulkLimit))
    ELSE SubSeq(messageIds, 1, Min(Len(messageIds), params.maxProcessed))

NoResponse ==
    [status |-> 0, error |-> FALSE, processed |-> 0, successful |-> 0, results |-> <<>>]
\* An error response: 400 or 500 of a route, {success: false} of the action.
ErrorResponse(status) ==
    [status |-> status, error |-> TRUE, processed |-> 0, successful |-> 0, results |-> <<>>]
\* The outer catch of the operation.
Failed == IF route = CleanNewsletters THEN ErrorResponse(200) ELSE ErrorResponse(500)

\* The unsubscribe route checks messageIds before the loop.
ValidateRequest ==
    /\ bpc = "start"
    /\ route = UnsubscribeRoute
    /\ IF messageIds = <<>>
       THEN bpc' = "done" /\ batchResponse' = ErrorResponse(400)
       ELSE bpc' = "loop" /\ UNCHANGED batchResponse
    /\ UNCHANGED <<route, params, messageIds, results, successCount, archived, markedRead,
                   iterations>>

\* handleBulkUnsubscribe is given an array of ids.
UseMessageIds ==
    /\ bpc = "start"
    /\ route = BulkUnsubscribe
    /\ params.messageIdsGiven
    /\ bpc' = "loop"
    /\ UNCHANGED <<route, params, messageIds, results, successCount, archived, markedRead,
                   iterations, batchResponse>>

Searches ==
    \/ route = BulkUnsubscribe /\ ~params.messageIdsGiven
    \/ route = CleanNewsletters

\* gmailService.searchNewsletters(daysOld) resolves.
SearchNewsletters ==
    /\ bpc = "start"
    /\ Searches
    /\ messageIds' \in IdLists
    /\ bpc' = "loop"
    /\ UNCHANGED <<route, params, results, successCount, archived, markedRead,
                   iterations, batchResponse>>

\* gmailService.searchNewsletters(daysOld) rejects.
SearchNewslettersFails ==
    /\ bpc = "start"
    /\ Searches
    /\ bpc' = "done"
    /\ batchResponse' = Failed
    /\ UNCHANGED <<route, params, messageIds, results, successCount, archived, markedRead,
                   iterations>>

\* The locals after an iteration; an error that left the loop ends the
\* operation in its outer catch.
Store(st) ==
    /\ results' = st.results
    /\ successCount' = st.successCount
    /\ archived' = st.archived
    /\ markedRead' = st.markedRead
    /\ iterations' = st.iterations
    /\ IF st.thrown
       THEN bpc' = "done" /\ batchResponse' = Failed
       ELSE UNCHANGED <<bpc, batchResponse>>
    /\ UNCHANGED <<route, params, messageIds>>

InLoop ==
    /\ bpc = "loop"
    /\ Len(iterations) < Len(LoopList)

UnsubscribeRouteIteration ==
    /\ InLoop
    /\ route = UnsubscribeRoute
    /\ \E env \in Environments :
        Store(UnsubscribeRouteItem(LoopState, LoopList[Len(iterations) + 1], env))

BulkUnsubscribeIteration ==
    /\ InLoop
    /\ route = BulkUnsubscribe
    /\ \E env \in Environments :
        Store(BulkUnsubscribeItem(LoopState, LoopList[Len(iterations) + 1], env))

CleanNewslettersIteration ==
    /\ InLoop
    /\ route = CleanNewsletters
    /\ \E env \in Environments :
        Store(CleanNewslettersItem(LoopState, LoopList[Len(iterations) + 1], env,
                                   params.autoUnsubscribe))

\* The loop is over: the response.
Respond ==
    /\ bpc = "loop"
    /\ Len(iterations) = Len(LoopList)
    /\ bpc' = "done"
    /\ batchResponse' =
         [status |-> 200, error |-> FALSE,
          processed |-> IF route = CleanNewsletters THEN Len(LoopList) ELSE Len(messageIds),
          successful |->
              IF route = UnsubscribeRoute
              THEN Cardinality({i \in 1..Len(results) : results[i].success})
              ELSE successCount,
          results |-> results]
    /\ UNCHANGED <<route, params, messageIds, results, successCount, archived, markedRead,
                   iterations>>

BatchIdle ==
    /\ route = "unused"
    /\ params = DefaultParams
    /\ messageIds = <<>>
    /\ bpc = "unused"
    /\ results = <<>>
    /\ successCount = 0
    /\ archived = 0
    /\ markedRead = {}
    /\ iterations = <<>>
    /\ batchResponse = NoResponse

\* A request arrives at one of the batch operations.
InitBatchVars ==
    /\ route \in Routes
    /\ \/ /\ route = UnsubscribeRoute
          /\ params = DefaultParams
          /\ messageIds \in IdLists
       \/ /\ route = BulkUnsubscribe
          /\ \/ params = DefaultParams /\ messageIds \in IdLists
             \/ params = [DefaultParams EXCEPT !.messageIdsGiven = FALSE] /\ messageIds = <<>>
       \/ /\ route = CleanNewsletters
          /\ params \in [messageIdsGiven : {FALSE}, autoUnsubscribe : BOOLEAN,
                         maxProcessed : {1, MaxProcessedDefault}]
          /\ messageIds = <<>>
    /\ bpc = "start"
    /\ results = <<>>
    /\ successCount = 0
    /\ archived = 0
    /\ markedRead = {}
    /\ iterations = <<>>
    /\ batchResponse = NoResponse

(***************************************************************************)
(* EmailAnalyzer                                                           *)
(***************************************************************************)
MaxRuns == 2
MaxInsights == 10           \* insights.slice(0, 10)

\* Strings are sequences of tokens; toLowerCase works token by token.
ToLowerCase(str) ==
    [i \in DOMAIN str |->
        CASE str[i] = "Hi" -> "hi"
          [] str[i] = "A@X.com" -> "a@x.com"
          [] str[i] = "URGENT" -> "urgent"
          [] str[i] = "NoReply" -> "noreply"
          [] str[i] = "UNSUBSCRIBE" -> "unsubscribe"
          [] OTHER -> str[i]]

\* str.includes(keyword), for a keyword that is one token.
Includes(str, keyword) == \E i \in DOMAIN str : str[i] = keyword

\* EmailMessage: from, subject, isNewsletter, unread, size > 5000000 (large),
\* date before the 30-day cutoff (old), the hour of the date.
Email(from, subject, isNewsletter, unread, old, large, hour) ==
    [from |-> from, subject |-> subject, isNewsletter |-> isNewsletter,
     unread |-> unread, old |-> old, large |-> large, hour |-> hour]
Messages ==
    { Email(<<"a@x.com">>, <<"Hi">>, FALSE, FALSE, FALSE, FALSE, 9),
      Email(<<"A@X.com">>, <<"hi">>, TRUE, TRUE, TRUE, FALSE, 13),
      Email(<<"b@x.com">>, <<"Hi">>, FALSE, FALSE, FALSE, TRUE, 0),
      Email(<<"alerts">>, <<"prod", ":", "down">>, FALSE, TRUE, FALSE, FALSE, 12),
      Email(<<"alerts", ":", "prod">>, <<"down">>, FALSE, FALSE, TRUE, FALSE, 12),
      Email(<<"b@x.com">>, <<"URGENT">>, TRUE, TRUE, FALSE, FALSE, 23) }

\* A message list is kept as runs: times copies of message, one after another.
Times == {1, 11, 51}
EmailLists == SeqsUpTo([message : Messages, times : Times], MaxRuns)
\* EmailStats: totalEmails and unreadEmails (the other fields are not read).
StatsValues == [totalEmails : {0, 1000}, unreadEmails : {0, 600, 1001, 20000}]

RECURSIVE Length(_)
\* list.length; list.filter(P).length is Length(SelectSeq(list, P)).
Length(list) ==
    IF list = <<>> THEN 0 ELSE list[1].times + Length(Tail(list))

\* `${email.from.toLowerCase()}:${email.subject.toLowerCase()}`
EmailKey(email) == ToLowerCase(email.from) \o <<":">> \o ToLowerCase(email.subject)

\* analyzePatterns(emails).
analyzePatterns(list) ==
    LET IsNewsletter(run) == run.message.isNewsletter
        IsUnreadNewsletter(run) == run.message.isNewsletter /\ run.message.unread
        IsOld(run) == run.message.old
        IsLarge(run) == run.message.large
        emailKeys == {EmailKey(list[i].message) : i \in 1..Len(list)}
    IN  [newsletters |-> Length(SelectSeq(list, IsNewsletter)),
         unreadNewsletters |-> Length(SelectSeq(list, IsUnreadNewsletter)),
         oldEmails |-> Length(SelectSeq(list, IsOld)),
         storageImpact |->
            [largeEmails |-> Length(SelectSeq(list, IsLarge)),
             oldEmails |-> Length(SelectSeq(list, IsOld)),
             duplicates |-> Length(list) - Cardinality(emailKeys)]]

\* analyzeSenders(emails).topSenders[0]: the sender with the largest count,
\* the one met first among equals (the sort is stable); count 0 when there
\* is no sender.
analyzeSenders(list) ==
    LET Sender(i) == ToLowerCase(list[i].message.from)
        Total(i) == LET From(run) == ToLowerCase(run.message.from) = Sender(i)
                    IN  Length(SelectSeq(list, From))
        Unread(i) == LET From(run) == /\ ToLowerCase(run.message.from) = Sender(i)
                                      /\ run.message.unread
                     IN  Length(SelectSeq(list, From))
        First(i) == \A j \in 1..(i - 1) : Sender(j) # Sender(i)
        Top(i) == /\ First(i)
                  /\ \A j \in 1..Len(list) :
                        First(j) => \/ Total(j) < Total(i)
                                    \/ Total(j) = Total(i) /\ j >= i
    IN  IF list = <<>> THEN [email |-> <<>>, count |-> 0, unreadCount |-> 0]
        ELSE LET i == CHOOSE k \in 1..Len(list) : Top(k)
             IN  [email |-> Sender(i), count |-> Total(i), unreadCount |-> Unread(i)]

\* analyzeTimePatterns(emails).timeOfDay
analyzeTimePatterns(list) ==
    [h \in 0..23 |-> LET AtHour(run) == run.message.hour = h
                     IN  Length(SelectSeq(list, AtHour))]

RECURSIVE PeakHour(_, _)
\* Object.entries(timeOfDay).reduce((a, b) => timeOfDay[a[0]] > timeOfDay[b[0]] ? a : b)
\* over the hours 0..h.
PeakHour(timeOfDay, h) ==
    IF h = 0 THEN 0
    ELSE LET a == PeakHour(timeOfDay, h - 1)
         IN  IF timeOfDay[a] > timeOfDay[h] THEN a ELSE h

\* hour === 0 ? '12 AM' : hour <= 12 ? `${hour} AM` : `${hour - 12} PM`
TimeStr(hour) ==
    IF hour = 0 THEN [number |-> 12, meridiem |-> "AM"]
    ELSE IF hour <= 12 THEN [number |-> hour, meridiem |-> "AM"]
    ELSE [number |-> hour - 12, meridiem |-> "PM"]
NoTimeStr == [number |-> 0, meridiem |-> ""]

Insight(title, priority, category) ==
    [title |-> title, priority |-> priority, category |-> category, timeStr |-> NoTimeStr]

\* generateCleanupInsights(emails, stats).
generateCleanupInsights(list, st) ==
    LET patterns == analyzePatterns(list)
    IN  (IF st.unreadEmails > 1000
         THEN <<Insight("High Unread Email Count", "high", "cleanup")>> ELSE <<>>)
        \o (IF patterns.unreadNewsletters > 50
            THEN <<Insight("Unread Newsletter Cleanup", "high", "cleanup")>> ELSE <<>>)
        \o (IF patterns.storageImpact.largeEmails > 20
            THEN <<Insight("Storage Optimization Available", "medium", "cleanup")>>
            ELSE <<>>)

\* generateOrganizationInsights(senderAnalysis, patterns).
generateOrganizationInsights(topSender, patterns) ==
    (IF topSender.count > 50 /\ topSender.unreadCount > 20
     THEN <<Insight("Frequent Sender Cleanup", "medium", "organization")>> ELSE <<>>)
    \o (IF patterns.storageImpact.duplicates > 10
        THEN <<Insight("Duplicate Emails Detected", "low", "organization")>> ELSE <<>>)

\* stats.unreadEmails / stats.totalEmails > 0.3, where n / 0 is Infinity for
\* n > 0 and 0 / 0 is NaN.
UnreadRatioAbove30Percent(st) ==
    IF st.totalEmails = 0 THEN st.unreadEmails > 0
    ELSE 10 * st.unreadEmails > 3 * st.totalEmails

\* generateProductivityInsights(timeAnalysis, stats).
generateProductivityInsights(timeOfDay, st) ==
    LET peakHour == PeakHour(timeOfDay, 23)
    IN  (IF timeOfDay[peakHour] > 0
         THEN <<[Insight("Email Peak Time Identified", "low", "productivity")
                    EXCEPT !.timeStr = TimeStr(peakHour)]>>
         ELSE <<>>)
        \o (IF UnreadRatioAbove30Percent(st)
            THEN <<Insight("High Unread Ratio", "medium", "productivity")>> ELSE <<>>)

\* generateSecurityInsights(emails, senderAnalysis): of the phishing keywords
\* the messages hold 'urgent' only, and no sender has a weird domain.
generateSecurityInsights(list) ==
    LET Suspicious(run) == \/ Includes(ToLowerCase(run.message.subject), "urgent")
                           \/ Includes(ToLowerCase(run.message.from), "urgent")
    IN  IF Length(SelectSeq(list, Suspicious)) > 5
        THEN <<Insight("Potential Security Concerns", "high", "security")>> ELSE <<>>

\* priorityOrder = { high: 3, medium: 2, low: 1 }
priorityOrder(priority) ==
    CASE priority = "high" -> 3 [] priority = "medium" -> 2 [] priority = "low" -> 1

\* Faulty variant: the comparator is priorityOrder[a] - priorityOrder[b].
ComparePriorityAscending(a, b) == priorityOrder(a.priority) - priorityOrder(b.priority)

\* (a, b) => priorityOrder[b.priority] - priorityOrder[a.priority]
ComparePriority(a, b) == priorityOrder(b.priority) - priorityOrder(a.priority)

RECURSIVE Sort(_)
\* insights.sort(compare): Array.prototype.sort is stable; each element is
\* put behind the elements that do not compare greater than it.
Sort(list) ==
    IF list = <<>> THEN <<>>
    ELSE LET init == Sort(SubSeq(list, 1, Len(list) - 1))
             last == list[Len(list)]
             k == Cardinality({i \in 1..Len(init) : ComparePriority(init[i], last) <= 0})
         IN  SubSeq(init, 1, k) \o <<last>> \o SubSeq(init, k + 1, Len(init))

Max(a, b) == IF a >= b THEN a ELSE b

\* Math.round(num / den) for num >= 0, den > 0.
Round(num, den) == (2 * num + den) \div (2 * den)

\* Faulty variant: the scores are not clamped at 0.
calculateScoresUnclamped(list, st, patterns) ==
    LET total == Max(st.totalEmails, 1)
        length == Max(Length(list), 1)
        newsletters == Max(patterns.newsletters, 1)
        cleanliness == 100 * total * length - 50 * st.unreadEmails * length
                       - 30 * patterns.oldEmails * total
        organization == 100 * newsletters * length
                        - 40 * patterns.unreadNewsletters * length
                        - 20 * patterns.storageImpact.duplicates * newsletters
        volumeScore == Min(100 * 100, 100 * 100 - st.unreadEmails)
    IN  [cleanliness |-> (2 * cleanliness + total * length) \div (2 * total * length),
         organization |-> (2 * organization + newsletters * length)
                            \div (2 * newsletters * length),
         productivity |-> (2 * volumeScore + 100) \div 200]

\* Faulty variant: the weights of the unread ratio and of the old ratio are
\* exchanged.
calculateScoresWeightsExchanged(list, st, patterns) ==
    LET total == Max(st.totalEmails, 1)
        length == Max(Length(list), 1)
        newsletters == Max(patterns.newsletters, 1)
        cleanliness == Max(0, 100 * total * length - 30 * st.unreadEmails * length
                              - 50 * patterns.oldEmails * total)
        organization == Max(0, 100 * newsletters * length
                               - 40 * patterns.unreadNewsletters * length
                               - 20 * patterns.storageImpact.duplicates * newsletters)
        volumeScore == Min(100 * 100, Max(0, 100 * 100 - st.unreadEmails))
    IN  [cleanliness |-> Round(cleanliness, total * length),
         organization |-> Round(organization, newsletters * length),
         productivity |-> Round(volumeScore, 100)]

\* calculateScores(emails, stats, patterns): each score is a fraction over
\* the product of the denominators of its ratios.
calculateScores(list, st, patterns) ==
    LET total == Max(st.totalEmails, 1)
        length == Max(Length(list), 1)
        newsletters == Max(patterns.newsletters, 1)
        cleanliness == Max(0, 100 * total * length - 50 * st.unreadEmails * length
                              - 30 * patterns.oldEmails * total)
        organization == Max(0, 100 * newsletters * length
                               - 40 * patterns.unreadNewsletters * length
                               - 20 * patterns.storageImpact.duplicates * newsletters)
        volumeScore == Min(100 * 100, Max(0, 100 * 100 - st.unreadEmails))
    IN  [cleanliness |-> Round(cleanliness, total * length),
         organization |-> Round(organization, newsletters * length),
         productivity |-> Round(volumeScore, 100)]

\* The insights in the order they are generated.
GeneratedInsights(list, st) ==
    generateCleanupInsights(list, st)
    \o generateOrganizationInsights(analyzeSenders(list), analyzePatterns(list))
    \o generateProductivityInsights(analyzeTimePatterns(list), st)
    \o generateSecurityInsights(list)

\* analyzeEmailData(emails, stats).
analyzeEmailData(list, st) ==
    LET patterns == analyzePatterns(list)
        insights == Sort(GeneratedInsights(list, st))
    IN  [insights |-> SubSeq(insights, 1, Min(Len(insights), MaxInsights)),
         topSender |-> analyzeSenders(list),
         timeOfDay |-> analyzeTimePatterns(list),
         storageImpact |-> patterns.storageImpact,
         score |-> calculateScores(list, st, patterns)]

NoStats == [totalEmails |-> 0, unreadEmails |-> 0]
NoAnalysis == analyzeEmailData(<<>>, NoStats)

\* analyzeEmailData is called and returns.
AnalyzeEmailData ==
    /\ apc = "start"
    /\ analysis' = analyzeEmailData(emails, stats)
    /\ apc' = "done"
    /\ UNCHANGED <<emails, stats>>

AnalyzerIdle ==
    /\ emails = <<>>
    /\ stats = NoStats
    /\ analysis = NoAnalysis
    /\ apc = "unused"


(***************************************************************************)
(* Classifier: GmailService.detectNewsletter and the rule-based            *)
(* LocalAIProvider.categorizeEmail                                         *)
(***************************************************************************)
MaxWords == 1

\* The words a subject, a sender and a snippet are made of.  'filler' stands
\* for 200 characters of text without any keyword.
SubjectWords ==
    {"hello", "noreply", "UNSUBSCRIBE", "digest", "weekly", "sale", "meeting", "receipt"}
FromWords == {"bob", "NoReply", "no-reply", "newsletter", "promo", "slack", "facebook"}
Snippets == {<<>>, <<"unsubscribe">>, <<"filler">>, <<"discount">>}
\* What detectNewsletter and categorizeEmail are given: the Subject and From
\* values, the snippet, and whether the List-Unsubscribe and Unsubscribe
\* headers are there.
Mails ==
    [subject : SeqsUpTo(SubjectWords, MaxWords), from : SeqsUpTo(FromWords, MaxWords),
     snippet : Snippets, listUnsubscribe : BOOLEAN, unsubscribe : BOOLEAN]

\* `${a} ${b}`
Join(a, b) == a \o <<" ">> \o b

\* keywords.some(keyword => str.includes(keyword))
IncludesAny(str, keywords) == \E keyword \in keywords : Includes(str, keyword)

RECURSIVE StringLength(_)
\* str.length: a word counts 7 characters, the filler 200.
StringLength(str) ==
    IF str = <<>> THEN 0
    ELSE (CASE str[1] = "filler" -> 200 [] str[1] = " " -> 1 [] OTHER -> 7)
         + StringLength(Tail(str))

newsletterIndicators ==
    {"newsletter", "noreply", "no-reply", "donotreply", "marketing", "promo",
     "unsubscribe", "digest", "weekly", "monthly", "updates"}

\* Faulty variant: the text is searched as it is, without toLowerCase().
detectNewsletterCaseSensitive(subject, from, listUnsubscribe, unsubscribe) ==
    LET text == Join(subject, from)
        hasIndicators == IncludesAny(text, newsletterIndicators)
        hasUnsubscribeHeader == listUnsubscribe \/ unsubscribe
    IN  hasIndicators \/ hasUnsubscribeHeader

\* detectNewsletter(subject, from, listUnsubscribe, unsubscribe).
detectNewsletter(subject, from, listUnsubscribe, unsubscribe) ==
    LET text == ToLowerCase(Join(subject, from))
        hasIndicators == IncludesAny(text, newsletterIndicators)
        hasUnsubscribeHeader == listUnsubscribe \/ unsubscribe
    IN  hasIndicators \/ hasUnsubscribeHeader

\* The conditions of categorizeEmailSync, in the order of its if statements.
Categories ==
    <<"newsletter", "promotional", "work", "social", "transactional", "personal", "other">>
RuleMatches(k, m) ==
    LET subject == ToLowerCase(m.subject)
        from == ToLowerCase(m.from)
        snippet == ToLowerCase(m.snippet)
        text == Join(Join(subject, from), snippet)
    IN  CASE k = 1 -> \/ IncludesAny(from, {"newsletter", "noreply", "no-reply"})
                      \/ IncludesAny(subject, {"newsletter", "digest"})
                      \/ m.listUnsubscribe
          [] k = 2 -> IncludesAny(text, {"sale", "offer", "discount", "promo", "%", "deal"})
          [] k = 3 -> \/ IncludesAny(from, {"slack", "jira", "github", "confluence"})
                      \/ IncludesAny(subject, {"meeting", "deadline", "project"})
          [] k = 4 -> IncludesAny(from, {"facebook", "twitter", "linkedin", "instagram",
                                         "youtube", "tiktok"})
          [] k = 5 -> IncludesAny(subject, {"receipt", "order", "payment", "invoice",
                                            "confirmation", "shipping"})
          [] k = 6 -> /\ ~IncludesAny(from, {"noreply", "no-reply"})
                      /\ ~Includes(text, "unsubscribe")
                      /\ StringLength(text) < 200
          [] k = 7 -> TRUE

\* categorizeEmailSync(email): the category of the first condition that holds.
categorizeEmailSync(m) ==
    Categories[CHOOSE k \in 1..7 : RuleMatches(k, m) /\ \A j \in 1..(k - 1) : ~RuleMatches(j, m)]

NoMail ==
    [subject |-> <<>>, from |-> <<>>, snippet |-> <<>>, listUnsubscribe |-> FALSE,
     unsubscribe |-> FALSE]

\* getEmails builds the message: isNewsletter is detectNewsletter's result.
DetectNewsletter ==
    /\ kpc = "start"
    /\ newsletterFlag' =
            detectNewsletter(mail.subject, mail.from, mail.listUnsubscribe, mail.unsubscribe)
    /\ kpc' = "detected"
    /\ UNCHANGED <<mail, label>>

\* LocalAIProvider.categorizeEmail(email) on the same message.
CategorizeEmail ==
    /\ kpc = "detected"
    /\ label' = categorizeEmailSync(mail)
    /\ kpc' = "done"
    /\ UNCHANGED <<mail, newsletterFlag>>

ClassifierIdle ==
    /\ mail = NoMail
    /\ newsletterFlag = FALSE
    /\ label = ""
    /\ kpc = "unused"

(***************************************************************************)
(* Mailbox mutations: GmailService.markAsRead, deleteEmails, trashEmails,  *)
(* archiveEmails and the handlers that call them                           *)
(***************************************************************************)
MaxMessages == 2
MaxServed == 2

MailboxIds == 1..MaxMessages
Labels == {"UNREAD", "INBOX", "TRASH"}

\* The handlers that mutate the mailbox, each with the value of `action`
\* that selects the mutation where the handler reads one.
MarkReadRoute == [name |-> "mark-read", action |-> ""]
RemoveRoute(action) == [name |-> "remove", action |-> action]
CleanOldEmails(action) == [name |-> "clean_old_emails", action |-> action]
ArchiveOldEmails == [name |-> "archive_old_emails", action |-> ""]
UnreadCleanup == [name |-> "unread_cleanup", action |-> ""]
MarkOldAsRead == [name |-> "mark_old_as_read", action |-> ""]
ArchiveLargeEmails == [name |-> "archive_large_emails", action |-> ""]
Handlers ==
    { MarkReadRoute, RemoveRoute("delete"), RemoveRoute("archive"), RemoveRoute("trash"),
      CleanOldEmails("archive"), CleanOldEmails("delete"), ArchiveOldEmails,
      UnreadCleanup, MarkOldAsRead, ArchiveLargeEmails }
NoHandler == [name |-> "", action |-> ""]

\* The caller supplies messageIds (the two routes); the others search.
TakesIds(h) == h.name \in {"mark-read", "remove"}
\* if (messageIds.length > 0) guards the mutation.
ChecksLength(h) ==
    h.name \in {"archive_old_emails", "unread_cleanup", "mark_old_as_read",
                "archive_large_emails"}
\* The outer catch answers 500; the automation actions return {success: false}.
CatchStatus(h) == IF h.name \in {"archive_old_emails", "unread_cleanup"} THEN 200 ELSE 500

\* The GmailService method the handler calls on the ids.
Mutation(h) ==
    CASE h.name = "mark-read" -> "markAsRead"
      [] h.name = "remove" ->
            (IF h.action = "delete" THEN "deleteEmails"
             ELSE IF h.action = "archive" THEN "archiveEmails" ELSE "trashEmails")
      [] h.name = "clean_old_emails" ->
            (IF h.action = "delete" THEN "deleteEmails" ELSE "markAsRead")
      [] OTHER -> "markAsRead"

\* Faulty variant: the message is moved to the trash and flagged unread.
batchModifyRequestTrashUnread(method) ==
    CASE method = "markAsRead" -> [addLabelIds |-> {}, removeLabelIds |-> {"UNREAD"}]
      [] method = "trashEmails" -> [addLabelIds |-> {"TRASH", "UNREAD"}, removeLabelIds |-> {}]
      [] method = "archiveEmails" -> [addLabelIds |-> {}, removeLabelIds |-> {"INBOX"}]

\* The requestBody of gmail.users.messages.batchModify in markAsRead,
\* trashEmails and archiveEmails.
batchModifyRequest(method) ==
    CASE method = "markAsRead" -> [addLabelIds |-> {}, removeLabelIds |-> {"UNREAD"}]
      [] method = "trashEmails" -> [addLabelIds |-> {"TRASH"}, removeLabelIds |-> {}]
      [] method = "archiveEmails" -> [addLabelIds |-> {}, removeLabelIds |-> {"INBOX"}]

\* What batchModify does to the mailbox: the labels of the listed messages.
batchModify(box, list, body) ==
    [m \in MailboxIds |->
        IF box[m].exists /\ \E i \in 1..Len(list) : list[i] = m
        THEN [box[m] EXCEPT !.labels = (@ \ body.removeLabelIds) \cup body.addLabelIds]
        ELSE box[m]]

\* Lists of ids in ascending order, as a search returns them, and the lists
\* a caller may send.
RECURSIVE Ascending(_)
Ascending(S) ==
    IF S = {} THEN <<>>
    ELSE LET least == CHOOSE m \in S : \A n \in S : m <= n
         IN  <<least>> \o Ascending(S \ {least})
SuppliedIds == {Ascending(S) : S \in SUBSET MailboxIds}

\* getEmails(query, n): any of the messages the query's is:read / is:unread
\* term admits (the dates and sizes the query names are not kept).
Matches(h, box, m) ==
    /\ box[m].exists
    /\ h.name \in {"clean_old_emails", "archive_old_emails"} => "UNREAD" \notin box[m].labels
    /\ h.name \in {"unread_cleanup", "mark_old_as_read"} => "UNREAD" \in box[m].labels
SearchResults(h, box) ==
    {Ascending(S) : S \in SUBSET {m \in MailboxIds : Matches(h, box, m)}}

NoReply == [status |-> 0, success |-> FALSE, processed |-> 0]
Reply(status, success, processed) ==
    [status |-> status, success |-> success, processed |-> processed]
GatewayCall(method, list) == [method |-> method, messageIds |-> list]

\* A request reaches one of the handlers; the two routes read messageIds
\* from its body.
Receive ==
    /\ gpc \in {"idle", "done"}
    /\ served < MaxServed
    /\ handler' \in Handlers
    /\ ids' \in (IF TakesIds(handler') THEN SuppliedIds ELSE {<<>>})
    /\ before' = mailbox
    /\ gatewayCalls' = <<>>
    /\ cursor' = 0
    /\ reply' = NoReply
    /\ served' = served + 1
    /\ gpc' = "received"
    /\ UNCHANGED <<mailbox>>

\* mark-read and remove: 400 when messageIds is empty, before any gateway call.
ValidateIds ==
    /\ gpc = "received"
    /\ TakesIds(handler)
    /\ IF Len(ids) = 0
       THEN /\ reply' = Reply(400, FALSE, 0)
            /\ gpc' = "done"
       ELSE /\ reply' = reply
            /\ gpc' = "mutate"
    /\ UNCHANGED <<mailbox, before, handler, ids, cursor, gatewayCalls, served>>

\* The housekeeping handlers search first; four of them skip the mutation
\* when nothing matched.
SearchResolves ==
    /\ gpc = "received"
    /\ ~TakesIds(handler)
    /\ ids' \in SearchResults(handler, mailbox)
    /\ IF ChecksLength(handler) /\ Len(ids') = 0
       THEN /\ reply' = Reply(200, TRUE, 0)
            /\ gpc' = "done"
       ELSE /\ reply' = reply
            /\ gpc' = "mutate"
    /\ UNCHANGED <<mailbox, before, handler, cursor, gatewayCalls, served>>

SearchRejects ==
    /\ gpc = "received"
    /\ ~TakesIds(handler)
    /\ reply' = Reply(CatchStatus(handler), FALSE, 0)
    /\ gpc' = "done"
    /\ UNCHANGED <<mailbox, before, handler, ids, cursor, gatewayCalls, served>>

\* markAsRead, trashEmails, archiveEmails: one batchModify for the whole list.
BatchModifyResolves ==
    /\ gpc = "mutate"
    /\ Mutation(handler) # "deleteEmails"
    /\ gatewayCalls' = Append(gatewayCalls, GatewayCall(Mutation(handler), ids))
    /\ mailbox' = batchModify(mailbox, ids, batchModifyRequest(Mutation(handler)))
    /\ reply' = Reply(200, TRUE, Len(ids))
    /\ gpc' = "done"
    /\ UNCHANGED <<before, handler, ids, cursor, served>>

BatchModifyRejects ==
    /\ gpc = "mutate"
    /\ Mutation(handler) # "deleteEmails"
    /\ gatewayCalls' = Append(gatewayCalls, GatewayCall(Mutation(handler), ids))
    /\ reply' = Reply(CatchStatus(handler), FALSE, 0)
    /\ gpc' = "done"
    /\ UNCHANGED <<mailbox, before, handler, ids, cursor, served>>

\* deleteEmails: for (const messageId of messageIds) await messages.delete.
DeleteResolves ==
    /\ gpc = "mutate"
    /\ Mutation(handler) = "deleteEmails"
    /\ cursor < Len(ids)
    /\ mailbox[ids[cursor + 1]].exists
    /\ gatewayCalls' = Append(gatewayCalls, GatewayCall("delete", <<ids[cursor + 1]>>))
    /\ mailbox' = [mailbox EXCEPT ![ids[cursor + 1]].exists = FALSE]
    /\ cursor' = cursor + 1
    /\ UNCHANGED <<before, handler, ids, gpc, reply, served>>

\* Faulty variant: a failing delete undoes the deletes made before it.
DeleteRejectsRestoring ==
    /\ gpc = "mutate"
    /\ Mutation(handler) = "deleteEmails"
    /\ cursor < Len(ids)
    /\ gatewayCalls' = Append(gatewayCalls, GatewayCall("delete", <<ids[cursor + 1]>>))
    /\ mailbox' = before
    /\ reply' = Reply(CatchStatus(handler), FALSE, 0)
    /\ gpc' = "done"
    /\ UNCHANGED <<before, handler, ids, cursor, served>>

\* The catch of deleteEmails rethrows and the handler's catch answers.
DeleteRejects ==
    /\ gpc = "mutate"
    /\ Mutation(handler) = "deleteEmails"
    /\ cursor < Len(ids)
    /\ gatewayCalls' = Append(gatewayCalls, GatewayCall("delete", <<ids[cursor + 1]>>))
    /\ reply' = Reply(CatchStatus(handler), FALSE, 0)
    /\ gpc' = "done"
    /\ UNCHANGED <<mailbox, before, handler, ids, cursor, served>>

DeleteReturns ==
    /\ gpc = "mutate"
    /\ Mutation(handler) = "deleteEmails"
    /\ cursor = Len(ids)
    /\ reply' = Reply(200, TRUE, Len(ids))
    /\ gpc' = "done"
    /\ UNCHANGED <<mailbox, before, handler, ids, cursor, gatewayCalls, served>>

\* The mailbox the first request meets: every message exists, read or unread,
\* in the inbox or archived, none in the trash yet.
Mailboxes == [MailboxIds -> [exists : {TRUE}, labels : SUBSET {"UNREAD", "INBOX"}]]

MailboxIdle ==
    /\ mailbox = [m \in MailboxIds |-> [exists |-> TRUE, labels |-> {}]]
    /\ before = mailbox
    /\ handler = NoHandler
    /\ ids = <<>>
    /\ gpc = "unused"
    /\ cursor = 0
    /\ gatewayCalls = <<>>
    /\ reply = NoReply
    /\ served = 0

\* State after the SmartAIProvider constructor.
InitChain ==
    /\ \E geminiApiKey \in GeminiKeys, huggingFaceApiKey \in BOOLEAN,
          includeLocal \in BOOLEAN :
        providers = BuildProviders(geminiApiKey, huggingFaceApiKey, includeLocal)
    /\ currentProvider = getNextAvailableProvider(providers, 0, FALSE)
    /\ call = [c \in Callers |-> IdleCall]
    /\ remoteSucceeded = FALSE

Init ==
    /\ InitChain
    /\ UnsubIdle
    /\ BatchIdle
    /\ AnalyzerIdle
    /\ ClassifierIdle
    /\ MailboxIdle

\* One caller at a time: each call is awaited before the next is made.
Next ==
    \/ Begin(1) /\ UNCHANGED notChainVars
    \/ Resolve(1) /\ UNCHANGED notChainVars
    \/ RejectCurrent(1) /\ UNCHANGED notChainVars
    \/ RejectFallback(1) /\ UNCHANGED notChainVars
    \/ RejectLocal(1) /\ UNCHANGED notChainVars

Spec == Init /\ [][Next]_vars

\* Calls on one shared instance interleave at their await points.
NextConc ==
    \E c \in Callers :
        \/ Begin(c) /\ UNCHANGED notChainVars
        \/ Resolve(c) /\ UNCHANGED notChainVars
        \/ RejectCurrent(c) /\ UNCHANGED notChainVars
        \/ RejectFallback(c) /\ UNCHANGED notChainVars
        \/ RejectLocal(c) /\ UNCHANGED notChainVars

SpecConc == Init /\ [][NextConc]_vars

(***************************************************************************)
(* Claims about the provider chain                                         *)
(***************************************************************************)

LocalWorks(c) ==
    /\ localProvider(providers) # 0
    /\ LocalCall(providers[localProvider(providers)], call[c].method,
                 call[c].inputOk, TRUE)

\* C1: with Local AI in the chain and one caller at a time, a call throws
\* only if Local AI itself fails; and while no remote provider has ever
\* returned a result, every returned result is Local AI's and currentProvider
\* is Local AI afterwards.
C1_LocalFallbackAlwaysReturns ==
    localProvider(providers) # 0 =>
        /\ call[1].pc = "thrown" => ~LocalWorks(1)
        /\ (call[1].pc = "returned" /\ ~remoteSucceeded) =>
                /\ call[1].result = localProvider(providers)
                /\ currentProvider = localProvider(providers)

\* Witness of C1: Gemini and HuggingFace both threw, Local AI returned.
C1_Witness ==
    /\ Len(providers) = 3
    /\ call[1].pc = "returned"
    /\ call[1].attempts = <<1, 2, 3>>
    /\ ~remoteSucceeded
    /\ currentProvider = 3

\* C2: when calls interleave on one shared instance, no call throws 'All AI
\* providers failed' while Local AI is in the chain and working.
C2_NoThrowWhileLocalWorks ==
    \A c \in Callers : call[c].pc = "thrown" => ~LocalWorks(c)

\* C3: after a call that returns, currentProvider is the provider that
\* produced the result, and the next call attempts that provider first.
C3_StickyRouting ==
    /\ call[1].pc = "returned" => currentProvider = call[1].result
    /\ (call[1].pc # "idle" /\ call[1].prevResult # 0) =>
            /\ call[1].attempts # <<>>
            /\ call[1].attempts[1] = call[1].prevResult

\* Witness of C3: the previous call returned through the fallback provider
\* and this call, which started with it, has returned as well.
C3_Witness ==
    /\ call[1].pc = "returned"
    /\ call[1].prevResult = 2
    /\ call[1].attempts[1] = 2
    /\ Len(providers) = 3

\* The attempt sequence the contract prescribes for a call that starts with
\* provider `start` as the current one.
C4_Prescribed(start) ==
    LET later == {i \in (start + 1)..Len(providers) : providers[i].available}
        second == IF later = {} THEN <<>>
                  ELSE <<CHOOSE i \in later : \A j \in later : i <= j>>
        tried == IF start = 0 THEN <<>> ELSE <<start>> \o second
        local == {i \in 1..Len(providers) : providers[i].name = LocalName}
        last == IF tried = <<>> THEN 0 ELSE tried[Len(tried)]
    IN  tried \o (IF local # {} /\ last \notin local
                  THEN <<CHOOSE i \in local : TRUE>> ELSE <<>>)

\* C4: within one call the providers are attempted one after another in the
\* prescribed order (current, next available after it, Local AI unless just
\* attempted), each only after the previous attempt failed, none twice, at
\* most three, and the call gives up only after the whole sequence.
C4_SequentialAttempts ==
    LET r == call[1]
        prescribed == C4_Prescribed(r.startProvider)
        n == Len(r.attempts)
    IN  /\ n <= 3
        /\ n <= Len(prescribed)
        /\ r.attempts = SubSeq(prescribed, 1, n)
        /\ \A i, j \in 1..n : i # j => r.attempts[i] # r.attempts[j]
        /\ r.pc \in {"await1", "await2", "await3", "returned"} => r.failed = n - 1
        /\ r.pc = "thrown" => (r.failed = n /\ r.attempts = prescribed)

\* Witness of C4: three providers attempted in one call, the last still awaited.
C4_Witness ==
    /\ call[1].pc = "await3"
    /\ call[1].attempts = <<1, 2, 3>>
    /\ call[1].failed = 2

\* C5: the current-provider pointer never moves backward, and no call ever
\* starts an attempt on a provider that lies before the pointer (a demoted
\* provider), also when calls interleave.
C5_PointerOnlyMovesForward ==
    [][/\ currentProvider' >= currentProvider
       /\ \A c \in Callers :
            (call'[c].attempts # call[c].attempts /\ call'[c].attempts # <<>>) =>
                call'[c].attempts[Len(call'[c].attempts)] >= currentProvider]_vars

\* Witness of C5: Gemini was demoted by an earlier call and a later call
\* starts with HuggingFace.
C5_Witness ==
    /\ Len(providers) = 3
    /\ providers[1].available
    /\ currentProvider = 2
    /\ \E c \in Callers :
        call[c].pc = "await1" /\ call[c].attempts = <<2>> /\ call[c].prevResult = 2

\* C6: when every attempted provider fails, the error thrown names the error
\* of the last provider attempted in the call.
C6_ErrorNamesLastAttempt ==
    (call[1].pc = "thrown" /\ call[1].attempts # <<>>) =>
        call[1].error = call[1].attempts[Len(call[1].attempts)]

(***************************************************************************)
(* Specifications of the unsubscribe detector                              *)
(***************************************************************************)

\* A chain that is constructed and never called.
ChainIdle ==
    /\ providers = BuildProviders("none", FALSE, TRUE)
    /\ currentProvider = getNextAvailableProvider(providers, 0, FALSE)
    /\ call = [c \in Callers |-> IdleCall]
    /\ remoteSucceeded = FALSE

InitExtract ==
    /\ ChainIdle
    /\ BatchIdle
    /\ AnalyzerIdle
    /\ ClassifierIdle
    /\ MailboxIdle
    /\ emailBody \in Bodies
    /\ headers \in Headers
    /\ unsubscribeInfo = NoInfo
    /\ upc = "start"
    /\ requests = <<>>
    /\ response = 0
    /\ unsubscribeResult = NoResult

NextExtract == ExtractUnsubscribeInfo /\ UNCHANGED notUnsubVars

SpecExtract == InitExtract /\ [][NextExtract]_vars

\* performUnsubscribe is handed an UnsubscribeInfo the extractor returned on
\* some bounded input.
InitPerform ==
    /\ ChainIdle
    /\ BatchIdle
    /\ AnalyzerIdle
    /\ ClassifierIdle
    /\ MailboxIdle
    /\ emailBody = EmptyBody
    /\ headers = NoHeaders
    /\ \E b \in Bodies, h \in Headers : unsubscribeInfo = extractUnsubscribeInfo(b, h)
    /\ upc = "extracted"
    /\ requests = <<>>
    /\ response = 0
    /\ unsubscribeResult = NoResult

NextPerform ==
    \/ PerformUnsubscribe /\ UNCHANGED notUnsubVars
    \/ GetResponds /\ UNCHANGED notUnsubVars
    \/ GetFails /\ UNCHANGED notUnsubVars

SpecPerform == InitPerform /\ [][NextPerform]_vars

(***************************************************************************)
(* Specification of the batch operations                                   *)
(***************************************************************************)
InitBatch ==
    /\ ChainIdle
    /\ UnsubIdle
    /\ AnalyzerIdle
    /\ ClassifierIdle
    /\ MailboxIdle
    /\ InitBatchVars

NextBatch ==
    \/ ValidateRequest /\ UNCHANGED notBatchVars
    \/ UseMessageIds /\ UNCHANGED notBatchVars
    \/ SearchNewsletters /\ UNCHANGED notBatchVars
    \/ SearchNewslettersFails /\ UNCHANGED notBatchVars
    \/ UnsubscribeRouteIteration /\ UNCHANGED notBatchVars
    \/ BulkUnsubscribeIteration /\ UNCHANGED notBatchVars
    \/ CleanNewslettersIteration /\ UNCHANGED notBatchVars
    \/ Respond /\ UNCHANGED notBatchVars

SpecBatch == InitBatch /\ [][NextBatch]_vars

(***************************************************************************)
(* Specification of the analyzer                                           *)
(***************************************************************************)
InitAnalyze ==
    /\ ChainIdle
    /\ UnsubIdle
    /\ BatchIdle
    /\ ClassifierIdle
    /\ MailboxIdle
    /\ emails \in EmailLists
    /\ stats \in StatsValues
    /\ analysis = NoAnalysis
    /\ apc = "start"

NextAnalyze == AnalyzeEmailData /\ UNCHANGED notAnalyzerVars

SpecAnalyze == InitAnalyze /\ [][NextAnalyze]_vars

(***************************************************************************)
(* Specification of the classifier                                         *)
(***************************************************************************)
InitClassify ==
    /\ ChainIdle
    /\ UnsubIdle
    /\ BatchIdle
    /\ AnalyzerIdle
    /\ MailboxIdle
    /\ mail \in Mails
    /\ newsletterFlag = FALSE
    /\ label = ""
    /\ kpc = "start"

NextClassify ==
    \/ DetectNewsletter /\ UNCHANGED notClassifierVars
    \/ CategorizeEmail /\ UNCHANGED notClassifierVars

SpecClassify == InitClassify /\ [][NextClassify]_vars

(***************************************************************************)
(* Specification of the mailbox mutations                                  *)
(***************************************************************************)
InitMailbox ==
    /\ ChainIdle
    /\ UnsubIdle
    /\ BatchIdle
    /\ AnalyzerIdle
    /\ ClassifierIdle
    /\ mailbox \in Mailboxes
    /\ before = mailbox
    /\ handler = NoHandler
    /\ ids = <<>>
    /\ gpc = "idle"
    /\ cursor = 0
    /\ gatewayCalls = <<>>
    /\ reply = NoReply
    /\ served = 0

NextMailbox ==
    \/ Receive /\ UNCHANGED notMailboxVars
    \/ ValidateIds /\ UNCHANGED notMailboxVars
    \/ SearchResolves /\ UNCHANGED notMailboxVars
    \/ SearchRejects /\ UNCHANGED notMailboxVars
    \/ BatchModifyResolves /\ UNCHANGED notMailboxVars
    \/ BatchModifyRejects /\ UNCHANGED notMailboxVars
    \/ DeleteResolves /\ UNCHANGED notMailboxVars
    \/ DeleteRejects /\ UNCHANGED notMailboxVars
    \/ DeleteReturns /\ UNCHANGED notMailboxVars

SpecMailbox == InitMailbox /\ [][NextMailbox]_vars

(***************************************************************************)
(* Claims about the unsubscribe detector                                   *)
(***************************************************************************)

\* The header value holds a <...> item that starts with http or mailto:.
HasBracketedLink(value) ==
    \E i \in 1..Len(value) :
        value[i].bracketed /\ value[i].url.scheme \in {"http:", "https:", "mailto:"}

\* C7: every UnsubscribeInfo returned by extractUnsubscribeInfo has found
\* true exactly when its links are non-empty.
C7_FoundIffLinks ==
    upc = "extracted" => (unsubscribeInfo.found <=> unsubscribeInfo.links # <<>>)

\* Witness of C7: a header without usable items, links taken from the body.
C7_Witness ==
    /\ upc = "extracted"
    /\ headers.key = "List-Unsubscribe"
    /\ headers.value # <<>>
    /\ ~HasBracketedLink(headers.value)
    /\ unsubscribeInfo.found
    /\ Len(unsubscribeInfo.links) = 2

\* C8 as stated: whenever a List-Unsubscribe header is present and the body
\* holds an unsubscribe link, the result is header-derived with confidence
\* 0.9.
C8_HeaderAlwaysPreferred ==
    (/\ upc = "extracted"
     /\ headers # NoHeaders
     /\ headers.value # <<>>
     /\ parseEmailContent(emailBody).found) =>
        /\ unsubscribeInfo.method = "header"
        /\ unsubscribeInfo.confidence = Fraction(9, 10)

\* C8 amended: whenever the headers hold, under the key 'list-unsubscribe' or
\* 'List-Unsubscribe', a value with at least one <...> item that starts with
\* http or mailto:, and the body holds an unsubscribe link, the result is
\* header-derived with confidence 0.9, its links are the header's, and it is
\* the result the same headers give with an empty body.
C8_HeaderPreferredWhenItYieldsLinks ==
    (/\ upc = "extracted"
     /\ headers.key \in HeaderKeys
     /\ HasBracketedLink(headers.value)
     /\ parseEmailContent(emailBody).found) =>
        /\ unsubscribeInfo.method = "header"
        /\ unsubscribeInfo.confidence = Fraction(9, 10)
        /\ unsubscribeInfo.found
        /\ \A i \in 1..Len(unsubscribeInfo.links) :
            \E j \in 1..Len(headers.value) :
                headers.value[j].bracketed /\ headers.value[j].url = unsubscribeInfo.links[i]
        /\ unsubscribeInfo = extractUnsubscribeInfo(EmptyBody, headers)

\* Witness of C8: a usable header and a body with a valid unsubscribe link.
C8_Witness ==
    /\ upc = "extracted"
    /\ headers.key = "list-unsubscribe"
    /\ HasBracketedLink(headers.value)
    /\ parseEmailContent(emailBody).found
    /\ parseEmailContent(emailBody).links # unsubscribeInfo.links
    /\ unsubscribeInfo.method = "header"

\* C9: performUnsubscribe issues at most one GET, and only for links[0]; when
\* links[0] starts with mailto: it returns success=false with that target in
\* the message and issues no request, whatever links follow.
C9_OnlyFirstLink ==
    /\ Len(requests) <= 1
    /\ requests # <<>> =>
            (unsubscribeInfo.links # <<>> /\ requests = <<unsubscribeInfo.links[1]>>)
    /\ (/\ upc = "done"
        /\ unsubscribeInfo.links # <<>>
        /\ unsubscribeInfo.links[1].scheme = "mailto:") =>
            /\ ~unsubscribeResult.success
            /\ unsubscribeResult.message.link = unsubscribeInfo.links[1]
            /\ requests = <<>>

\* Witness of C9: a mailto: link first, a fetchable link after it.
C9_Witness ==
    /\ upc = "done"
    /\ Len(unsubscribeInfo.links) = 2
    /\ unsubscribeInfo.links[1].scheme = "mailto:"
    /\ unsubscribeInfo.links[2].scheme = "https:"

\* C10: performUnsubscribe always returns {success, message} and never
\* throws; success is true exactly when found is true, links[0] is not a
\* mailto: link, the GET completed and its status is in 200..399; a status
\* outside gives success=false with the status in the message; a network
\* error or timeout gives success=false.
C10_ResultOfPerform ==
    upc = "done" =>
        /\ ~unsubscribeResult.thrown
        /\ unsubscribeResult.success <=>
                /\ unsubscribeInfo.found
                /\ unsubscribeInfo.links # <<>>
                /\ unsubscribeInfo.links[1].scheme # "mailto:"
                /\ response \in 200..399
        /\ (response > 0 /\ response \notin 200..399) =>
                /\ ~unsubscribeResult.success
                /\ unsubscribeResult.message.status = response
        /\ response = -1 => ~unsubscribeResult.success

\* Witness of C10: the GET completed with the last status of the accepted range.
C10_Witness ==
    /\ upc = "done"
    /\ response = 399
    /\ unsubscribeResult.success
    /\ unsubscribeInfo.method = "form"

\* C11 as stated: every link of a returned UnsubscribeInfo begins with http or
\* mailto:, whether it came from the header, an anchor or a form's action.
C11_LinksAreHttpOrMailto ==
    upc = "extracted" =>
        \A i \in 1..Len(unsubscribeInfo.links) :
            StartsWithHttp(unsubscribeInfo.links[i])
                \/ StartsWithMailto(unsubscribeInfo.links[i])

\* C12: the confidence of every returned UnsubscribeInfo is within [0,1]; it
\* is 0 exactly when found is false, 0.9 when the result is header-derived,
\* and for a content-parsed result it is min(1, 0.5 + min(0.1 * mentions, 0.3)
\* + 0.2 * https links / links), hence at least 0.5.
C12_ConfidenceValue ==
    upc = "extracted" =>
        LET c == unsubscribeInfo.confidence
            n == Len(unsubscribeInfo.links)
            h == Cardinality({i \in 1..n : unsubscribeInfo.links[i].scheme = "https:"})
            m == IF emailBody.mentions < 3 THEN emailBody.mentions ELSE 3
            rawNum == (5 + m) * n + 2 * h
            rawDen == 10 * n
        IN  /\ c.den > 0 /\ 0 <= c.num /\ c.num <= c.den
            /\ c.num = 0 <=> ~unsubscribeInfo.found
            /\ (unsubscribeInfo.found /\ unsubscribeInfo.method = "header") =>
                    10 * c.num = 9 * c.den
            /\ (unsubscribeInfo.found /\ unsubscribeInfo.method # "header") =>
                    /\ IF rawNum >= rawDen THEN c.num = c.den
                       ELSE c.num * rawDen = rawNum * c.den
                    /\ 2 * c.num >= c.den

\* Witness of C12: two body links, one of them https, the word mentioned
\* more than three times: 0.5 + 0.3 + 0.1.
C12_Witness ==
    /\ upc = "extracted"
    /\ unsubscribeInfo.method = "link"
    /\ Len(unsubscribeInfo.links) = 2
    /\ emailBody.mentions > 3
    /\ 10 * unsubscribeInfo.confidence.num = 9 * unsubscribeInfo.confidence.den

(***************************************************************************)
(* Claims about the batch operations                                       *)
(***************************************************************************)

\* C13: whatever fails for single messages (body fetch, unsubscribe request,
\* mark-as-read), the loop of each batch operation goes on to every message
\* of its list, in order, and no such failure turns the response into an
\* error: an error response is decided before the first iteration.
C13_PerItemIsolation ==
    /\ batchResponse.error => iterations = <<>>
    /\ Len(iterations) <= Len(LoopList)
    /\ \A i \in 1..Len(iterations) : iterations[i].messageId = LoopList[i]
    /\ bpc = "done" /\ ~batchResponse.error =>
            /\ Len(iterations) = Len(LoopList)
            /\ batchResponse.status = 200

\* Witness of C13: the first message's mark-as-read failed, the second was
\* still unsubscribed, and the route answered normally.
C13_Witness ==
    /\ route = UnsubscribeRoute
    /\ bpc = "done"
    /\ batchResponse.status = 200
    /\ Len(iterations) = 2
    /\ iterations[1].outcome = "markFailed"
    /\ iterations[2].outcome = "unsubscribed"

\* C14 as stated: the result list of the unsubscribe route holds exactly one
\* entry per input id, in input order, and 'successful' is the number of ids
\* whose entry has success=true.
C14_OneEntryPerInputId ==
    (bpc = "done" /\ route = UnsubscribeRoute /\ ~batchResponse.error) =>
        /\ Len(batchResponse.results) = Len(messageIds)
        /\ \A i \in 1..Len(messageIds) :
                batchResponse.results[i].messageId = messageIds[i]
        /\ batchResponse.successful =
                Cardinality({i \in 1..Len(messageIds) : batchResponse.results[i].success})

\* C15 as stated: in the response of every batch operation the processed
\* count is the length of the itemized list, and every message whose
\* iteration did not end in success has an entry in that list.
C15_ProcessedCountsEntries ==
    (bpc = "done" /\ ~batchResponse.error) =>
        /\ batchResponse.processed = Len(batchResponse.results)
        /\ \A i \in 1..Len(iterations) :
                iterations[i].outcome \notin {"unsubscribed", "archived"} =>
                    \E j \in 1..Len(batchResponse.results) :
                        batchResponse.results[j].messageId = iterations[i].messageId

(***************************************************************************)
(* Claims about the analyzer                                               *)
(***************************************************************************)

\* C16: the insight list returned by analyzeEmailData has at most 10 entries,
\* no medium or low insight precedes a high one and no low one a medium one,
\* and insights of equal priority keep the order they were generated in.
C16_InsightsRanked ==
    apc = "done" =>
        LET ins == analysis.insights
            gen == GeneratedInsights(emails, stats)
            Pos(title) == CHOOSE k \in 1..Len(gen) : gen[k].title = title
        IN  /\ Len(ins) <= 10
            /\ \A i \in 1..Len(ins) : \E k \in 1..Len(gen) : gen[k] = ins[i]
            /\ \A i, j \in 1..Len(ins) :
                    i < j =>
                        /\ ins[j].priority = "high" => ins[i].priority = "high"
                        /\ ins[j].priority = "medium" => ins[i].priority # "low"
                        /\ ins[i].priority = ins[j].priority =>
                                Pos(ins[i].title) < Pos(ins[j].title)

\* Witness of C16: two high insights in generation order ahead of a medium
\* one that was generated after a low one.
C16_Witness ==
    /\ apc = "done"
    /\ Len(analysis.insights) = 4
    /\ analysis.insights[1].title = "High Unread Email Count"
    /\ analysis.insights[2].title = "Potential Security Concerns"
    /\ analysis.insights[3].title = "High Unread Ratio"
    /\ analysis.insights[4].title = "Email Peak Time Identified"

\* C17: for any message list and any non-negative stats, totalEmails = 0, an
\* empty list and unreadEmails > totalEmails included, the three scores are
\* each within [0,100].
C17_ScoresInRange ==
    apc = "done" =>
        /\ analysis.score.cleanliness \in 0..100
        /\ analysis.score.organization \in 0..100
        /\ analysis.score.productivity \in 0..100

\* Witness of C17: no message, totalEmails = 0 and 20000 unread.
C17_Witness ==
    /\ apc = "done"
    /\ emails = <<>>
    /\ stats.totalEmails = 0
    /\ stats.unreadEmails > 10000
    /\ analysis.score.cleanliness = 0
    /\ analysis.score.productivity = 0

\* C18 as stated: for stats {totalEmails: 1000, unreadEmails: 600} the
\* insights of generateCleanupInsights include a high-priority insight about
\* the unread count.
C18_UnreadInsightAt600 ==
    (apc = "done" /\ stats.totalEmails = 1000 /\ stats.unreadEmails = 600) =>
        LET cleanup == generateCleanupInsights(emails, stats)
        IN  \E i \in 1..Len(cleanup) :
                /\ cleanup[i].priority = "high"
                /\ cleanup[i].title = "High Unread Email Count"

\* C19: the cleanliness score is max(0, 100 - 50 * unreadEmails /
\* max(totalEmails, 1) - 30 * oldEmails / max(messageCount, 1)) rounded to the
\* nearest integer (halves upwards), oldEmails counting the messages dated
\* more than 30 days ago; for 1000 total, 600 unread and no old message it is
\* 70.
C19_Cleanliness ==
    apc = "done" =>
        LET total == IF stats.totalEmails > 1 THEN stats.totalEmails ELSE 1
            messageCount == IF emails = <<>> THEN 1 ELSE Length(emails)
            oldEmails == Length(SelectSeq(emails, LAMBDA run : run.message.old))
            den == total * messageCount
            raw == 100 * den - 50 * stats.unreadEmails * messageCount
                   - 30 * oldEmails * total
            value == IF raw < 0 THEN 0 ELSE raw
            c == analysis.score.cleanliness
        IN  /\ 2 * den * c - den <= 2 * value
            /\ 2 * value < 2 * den * c + den
            /\ (stats.totalEmails = 1000 /\ stats.unreadEmails = 600 /\ oldEmails = 0) => c = 70

\* Witness of C19: 1000 total, 600 unread, messages none of which is old.
C19_Witness ==
    /\ apc = "done"
    /\ stats.totalEmails = 1000
    /\ stats.unreadEmails = 600
    /\ Len(emails) = 2
    /\ \A i \in 1..Len(emails) : ~emails[i].message.old
    /\ analysis.score.cleanliness = 70

\* C20 as stated: the duplicate count is the number of messages minus the
\* number of distinct (lowercased sender, lowercased subject) pairs.
C20_DuplicatesByPair ==
    apc = "done" =>
        analysis.storageImpact.duplicates =
            Length(emails)
            - Cardinality({<<ToLowerCase(emails[i].message.from),
                             ToLowerCase(emails[i].message.subject)>> : i \in 1..Len(emails)})

(***************************************************************************)
(* Claims about the classifier                                             *)
(***************************************************************************)

\* The subject or the sender holds the word, in whatever letter case.
SenderOrSubjectHolds(m, word) ==
    \/ Includes(ToLowerCase(m.subject), word)
    \/ Includes(ToLowerCase(m.from), word)

\* C21: a message whose sender or subject contains 'noreply' or 'unsubscribe',
\* in any letter case, is a newsletter for detectNewsletter, with or without
\* an unsubscribe header.
C21_NoreplyIsNewsletter ==
    (kpc \in {"detected", "done"} /\ (SenderOrSubjectHolds(mail, "noreply") \/ SenderOrSubjectHolds(mail, "unsubscribe")))
        => newsletterFlag

\* A sender written 'NoReply', no unsubscribe header, found to be a newsletter.
C21_Witness ==
    /\ kpc = "detected"
    /\ mail.from = <<"NoReply">>
    /\ ~mail.listUnsubscribe
    /\ ~mail.unsubscribe
    /\ newsletterFlag

\* `${subject} ${from} ${snippet}` in lower case.
TextOf(m) == Join(Join(ToLowerCase(m.subject), ToLowerCase(m.from)), ToLowerCase(m.snippet))

\* C22: categorizeEmail returns one of the seven labels, the first in the
\* fixed order whose rule the message satisfies, and 'personal' only for a
\* text of fewer than 200 characters without unsubscribe or no-reply
\* indicator that no earlier rule matched.
C22_FirstMatchingLabel ==
    kpc = "done" =>
        /\ \E k \in 1..7 :
                /\ label = Categories[k]
                /\ RuleMatches(k, mail)
                /\ \A j \in 1..(k - 1) : ~RuleMatches(j, mail)
        /\ label = "personal" =>
                /\ ~IncludesAny(TextOf(mail), {"unsubscribe", "noreply", "no-reply"})
                /\ StringLength(TextOf(mail)) < 200

\* C23: categorizeEmail answers 'newsletter' exactly for the messages that
\* detectNewsletter finds to be newsletters.
C23_SameNewsletterRule ==
    kpc = "done" => (label = "newsletter" <=> newsletterFlag)

(***************************************************************************)
(* Claims about the remote providers                                       *)
(***************************************************************************)

\* C24: whichever operation a remote provider is awaited on, the call rejects
\* when its backend is unreachable or answers with an error payload.
C24_RemoteFailureThrows ==
    \A c \in Callers :
        (Awaiting(c) /\ IsRemote(providers[Attempted(c)]))
            => ~ProviderCall(providers[Attempted(c)], call[c].method, call[c].inputOk, FALSE)

(***************************************************************************)
(* Claims about the mailbox mutations                                      *)
(***************************************************************************)

\* The housekeeping actions that announce an archive.
ArchiveActions == {CleanOldEmails("archive"), ArchiveOldEmails, ArchiveLargeEmails}

\* i is a position of ids.
Listed(m) == \E i \in 1..Len(ids) : ids[i] = m

\* C25: after an archive housekeeping action has succeeded, none of the
\* matched messages carries the INBOX label.
C25_ArchiveRemovesInbox ==
    (gpc = "done" /\ handler \in ArchiveActions /\ reply.success)
        => \A m \in MailboxIds : Listed(m) => "INBOX" \notin mailbox[m].labels

\* C26: no mutation call is made with an empty list of ids, and a request
\* whose messageIds is empty is answered 400 without any gateway call.
C26_NoEmptyBatchMutation ==
    /\ \A i \in 1..Len(gatewayCalls) : Len(gatewayCalls[i].messageIds) > 0
    /\ (gpc = "done" /\ TakesIds(handler) /\ Len(ids) = 0)
            => (reply.status = 400 /\ gatewayCalls = <<>> /\ mailbox = before)

\* C27: no step adds the UNREAD label to a message, and a step of
\* trashEmails or archiveEmails leaves the label as it was.
C27_UnreadOnlyCleared ==
    [][\A m \in MailboxIds :
          /\ "UNREAD" \in mailbox'[m].labels => "UNREAD" \in mailbox[m].labels
          /\ Mutation(handler) \in {"trashEmails", "archiveEmails"}
                => ("UNREAD" \in mailbox'[m].labels <=> "UNREAD" \in mailbox[m].labels)]_vars

\* The second request has trashed two messages: the one that was read is
\* still read, the other is still unread.
C27_Witness ==
    /\ gpc = "done"
    /\ served = 2
    /\ handler = RemoveRoute("trash")
    /\ reply.success
    /\ \E m \in MailboxIds : Listed(m) /\ mailbox[m].labels = {"TRASH", "INBOX"}
    /\ \E m \in MailboxIds : Listed(m) /\ "UNREAD" \in mailbox[m].labels

\* The request ended with a delete call that failed.
DeleteFailed ==
    /\ gpc = "done"
    /\ ~reply.success
    /\ gatewayCalls # <<>>
    /\ gatewayCalls[Len(gatewayCalls)].method = "delete"

\* C30: deleteEmails deletes one id per call in list order; when the call at
\* a position fails no further call is made, the ids before it are deleted,
\* the failing one and all later ones are as they were, and the remove route
\* answers 500.
C30_DeleteStopsAtFirstFailure ==
    DeleteFailed
        => /\ cursor < Len(ids)
           /\ Len(gatewayCalls) = cursor + 1
           /\ \A i \in 1..(cursor + 1) : gatewayCalls[i].messageIds = <<ids[i]>>
           /\ \A i \in 1..cursor : ~mailbox[ids[i]].exists
           /\ \A i \in (cursor + 1)..Len(ids) : mailbox[ids[i]] = before[ids[i]]
           /\ handler.name = "remove" => reply.status = 500

\* The remove route fails on the second of two ids: the first is gone, the
\* second still exists.
C30_Witness ==
    /\ gpc = "done"
    /\ handler = RemoveRoute("delete")
    /\ ids = <<1, 2>>
    /\ cursor = 1
    /\ reply.status = 500
    /\ before[1].exists /\ ~mailbox[1].exists
    /\ mailbox[2].exists

(***************************************************************************)
(* Claims about the peak-hour insight                                      *)
(***************************************************************************)

\* The 12-hour clock label of an hour of the day.
ClockLabel(h) ==
    CASE h = 0 -> [number |-> 12, meridiem |-> "AM"]
      [] h \in 1..11 -> [number |-> h, meridiem |-> "AM"]
      [] h = 12 -> [number |-> 12, meridiem |-> "PM"]
      [] h \in 13..23 -> [number |-> h - 12, meridiem |-> "PM"]

\* C28: the peak-hour insight carries the 12-hour clock label of an hour
\* with the largest message count, and that count is at least one.
C28_PeakHourLabel ==
    apc = "done" =>
        \A i \in 1..Len(analysis.insights) :
            analysis.insights[i].title = "Email Peak Time Identified"
                => \E h \in 0..23 :
                        /\ analysis.timeOfDay[h] > 0
                        /\ \A g \in 0..23 : analysis.timeOfDay[g] <= analysis.timeOfDay[h]
                        /\ analysis.insights[i].timeStr = ClockLabel(h)

(***************************************************************************)
(* Claims about marking unsubscribed messages as read                      *)
(***************************************************************************)

\* The flow unsubscribes by itself.
AutoUnsubscribes ==
    \/ route \in {UnsubscribeRoute, BulkUnsubscribe}
    \/ route = CleanNewsletters /\ params.autoUnsubscribe

\* C29: in a flow that unsubscribes by itself, every message marked as read
\* has an entry with success = true from performUnsubscribe, and no message
\* whose unsubscribe information was not found or whose unsubscribe failed is
\* marked as read.
C29_MarkedReadOnlyAfterSuccess ==
    AutoUnsubscribes =>
        /\ \A id \in markedRead :
                \E j \in 1..Len(results) : results[j].messageId = id /\ results[j].success
        /\ \A i \in 1..Len(iterations) :
                iterations[i].outcome \in {"bodyFailed", "notFound", "lowConfidence",
                                           "unsubscribeFailed"}
                    => iterations[i].messageId \notin markedRead

\* handleBulkUnsubscribe has marked one message as read and left alone
\* another whose unsubscribe failed.
C29_Witness ==
    /\ route = BulkUnsubscribe
    /\ bpc = "done"
    /\ markedRead # {}
    /\ \E i \in 1..Len(iterations) :
            /\ iterations[i].outcome = "unsubscribeFailed"
            /\ iterations[i].messageId \notin markedRead

====
